---- MODULE Spec2Model ----
(***************************************************************************)
(* A model of the Game Maker archive decoder and room compositor of        *)
(* gm_asset_viewer.py (and of the name resolution of                       *)
(* extras/audio_extractor.py).                                             *)
(*                                                                         *)
(* An archive is a sequence of bytes; the byte at Python offset o is       *)
(* data[o + 1].  A read past the end of the buffer raises struct.error in  *)
(* the program; the model makes every such read explicit.                  *)
(***************************************************************************)
EXTENDS Integers, Sequences, FiniteSets, TLC

(***************************************************************************)
(* Bounds of the model.                                                    *)
(***************************************************************************)
MaxWords == 6       \* 32-bit words after the 8-byte header of a scanned buffer
MaxTail  == 1       \* stray bytes after the last whole word of a scanned buffer
MaxSlots == 3       \* pointer slots of an object chunk
MaxSlotsSmall == 2  \* pointer slots of a chunk of another kind

(***************************************************************************)
(* ChunkID: the tags are the little-endian values of their four letters.   *)
(***************************************************************************)
Byte4(b0, b1, b2, b3) == b0 + 256 * b1 + 65536 * b2 + 16777216 * b3

FORM == Byte4(70, 79, 82, 77)
GEN8 == Byte4(71, 69, 78, 56)
SOND == Byte4(83, 79, 78, 68)
SPRT == Byte4(83, 80, 82, 84)
BGND == Byte4(66, 71, 78, 68)
OBJT == Byte4(79, 66, 74, 84)
ROOM == Byte4(82, 79, 79, 77)
TXTR == Byte4(84, 88, 84, 82)
FONT == Byte4(70, 79, 78, 84)

\* A tag that is not the container tag ("FORN").
BADM == Byte4(70, 79, 82, 78)

(***************************************************************************)
(* Byte buffers and the primitive readers of DataWin.                      *)
(***************************************************************************)
\* struct.pack('<I', v): the four bytes of v, least significant first.
pack32(v) == << v % 256, (v \div 256) % 256, (v \div 65536) % 256,
                (v \div 16777216) % 256 >>

RECURSIVE Flatten(_)
Flatten(ws) == IF ws = << >> THEN << >> ELSE pack32(Head(ws)) \o Flatten(Tail(ws))

Zeros(n) == [k \in 1..n |-> 0]

\* struct.unpack_from raises struct.error unless the n bytes at o are inside
\* the buffer.
CanRead(data, o, n) == o >= 0 /\ o + n <= Len(data)

u32(data, o) == Byte4(data[o + 1], data[o + 2], data[o + 3], data[o + 4])

u16(data, o) == data[o + 1] + 256 * data[o + 2]

\* A signed read: the top byte carries the sign.
i32(data, o) ==
  Byte4(data[o + 1], data[o + 2], data[o + 3],
        IF data[o + 4] >= 128 THEN data[o + 4] - 256 ELSE data[o + 4])

\* data[a:b] for 0 <= a: Python clamps a slice to the buffer.
Min(a, b) == IF a < b THEN a ELSE b
Max(a, b) == IF a > b THEN a ELSE b

Slice(data, a, b) ==
  LET lo == Min(a, Len(data))
      hi == Min(b, Len(data))
  IN  IF hi <= lo THEN << >> ELSE [k \in 1..(hi - lo) |-> data[lo + k]]

(***************************************************************************)
(* State.                                                                  *)
(***************************************************************************)
VARIABLES
  data,      \* DataWin.data: the bytes of the archive being scanned
  pos,       \* the local pos of DataWin._parse
  chunks,    \* DataWin.chunks: a dict, kept as its key order and its mapping
  parsePc,   \* where _parse stands: "magic", "loop", "done", "bad_magic", "struct_error"
  nameIn,    \* a name to resolve: the name pointer, the record kind and index
  nameOut,   \* the names the viewer and the audio extractor give it
  dw,        \* App.dw: None or the DataWin of the last archive that scanned
  ext,       \* App.ext: None or the GameExtractor created last
  textures,  \* App.textures: page id -> image (the renderer shares this dict)
  renderer,  \* App.renderer: None or the RoomRenderer created last
  tree,      \* None, or the nodes _populate_tree put in the tree browser
  loadStep,  \* 0, or the step of extract_all that open_file runs next
  loads,     \* the number of open_file calls so far
  lastError, \* the outcome of the last open_file: "none", or what it reported
  lastRender, \* None, or the last call of render_room: its arguments and its result
  preview,   \* None, or the element selected last and the image its preview shows
  current_room, \* App._current_room: None or the room shown last
  rendering, \* the calls of render_room under way: caller -> where it stands
  layer_mapper, \* the LayerMapper of the converter to MaxScript
  placed     \* None, or the element the converter placed last: its layer and Z

scanVars == << data, pos, chunks, parsePc >>
nameVars == << nameIn, nameOut >>
appVars  == << dw, ext, textures, renderer, tree, loadStep, loads, lastError, lastRender,
              preview, current_room, rendering >>

layerVars == << layer_mapper, placed >>

vars == << scanVars, nameVars, appVars, layerVars >>

\* The values of the variables a specification does not use.
NameIdle == [ptr |-> 0, kind |-> "sprite", index |-> 0]
Unresolved == [done |-> FALSE, name |-> << >>]
NameInit == nameIn = NameIdle /\ nameOut = [viewer |-> Unresolved, audio |-> Unresolved]

\* The callers of render_room, and a caller that is in no call.
Callers == {"first", "second"}
Idle == [pc |-> "idle"]

\* LayerMapper.__init__ without arguments: the lower ends of the default
\* depth ranges, and no depth recorded (min_depth and max_depth are the
\* infinities, kept as None).
depth_ranges ==
  [layer_2 |-> 5000, layer_1 |-> 1000, layer_0 |-> 0 - 500, layer_m1 |-> 0 - 2000,
   layer_m2 |-> 0 - 100000]

LayerMapper ==
  [depth_ranges |-> depth_ranges, min_depth |-> << >>, max_depth |-> << >>,
   depth_histogram |-> << >>]

\* App.__init__, and the LayerMapper of the converter
AppInit ==
  /\ dw = << >> /\ ext = << >> /\ textures = << >> /\ renderer = << >>
  /\ tree = << >> /\ loadStep = 0 /\ loads = 0 /\ lastError = "none"
  /\ lastRender = << >> /\ preview = << >> /\ current_room = << >>
  /\ rendering = [c \in Callers |-> Idle]
  /\ layer_mapper = LayerMapper /\ placed = << >>

(***************************************************************************)
(* DataWin.chunks is a Python dict: assigning to a key that is already     *)
(* present replaces the value and keeps the key's place in the order.      *)
(***************************************************************************)
EmptyDict == [keys |-> << >>, map |-> << >>]

InSeq(x, s) == \E k \in 1..Len(s) : s[k] = x

DictHas(d, key) == InSeq(key, d.keys)

IndexOf(s, x) == CHOOSE k \in 1..Len(s) : s[k] = x

DictGet(d, key) == d.map[IndexOf(d.keys, key)]

DictPut(d, key, val) ==
  IF DictHas(d, key)
  THEN [d EXCEPT !.map[IndexOf(d.keys, key)] = val]
  ELSE [keys |-> Append(d.keys, key), map |-> Append(d.map, val)]

\* The values of the dict in the dict's own order.
DictValues(d) == d.map

(***************************************************************************)
(* DataWin._parse, one step at a time.                                     *)
(***************************************************************************)
Chunk(name, offset, size, data_start) ==
  [name |-> name, offset |-> offset, size |-> size, data_start |-> data_start]

\* The loop condition of _parse.
parse_more(d, p) == p < Len(d) - 8

\* A magic test that accepts any four bytes.
parse_magic_any(d) ==
  IF ~CanRead(d, 0, 4) THEN "struct_error"
  ELSE "loop"

\* The magic test at the top of _parse.
parse_magic(d) ==
  IF ~CanRead(d, 0, 4) THEN "struct_error"
  ELSE IF u32(d, 0) # FORM THEN "bad_magic"
  ELSE "loop"

\* A scan that advances by the payload size only, forgetting the header.
parse_iter_no_header(d, p, cs) ==
  LET cid == u32(d, p)
      sz  == u32(d, p + 4)
  IN  [pos |-> IF sz = 0 THEN p + 8 ELSE p + sz,
       chunks |-> DictPut(cs, cid, Chunk(Slice(d, p, p + 4), p, sz, p + 8))]

\* One iteration of the loop of _parse.
parse_iter(d, p, cs) ==
  LET cid == u32(d, p)
      sz  == u32(d, p + 4)
  IN  [pos |-> p + 8 + sz,
       chunks |-> DictPut(cs, cid, Chunk(Slice(d, p, p + 4), p, sz, p + 8))]

\* The whole of _parse: the chunk dict, or the error it raises.
RECURSIVE parse_loop(_, _, _)
parse_loop(d, p, cs) ==
  IF parse_more(d, p)
  THEN LET r == parse_iter(d, p, cs) IN parse_loop(d, r.pos, r.chunks)
  ELSE [pos |-> p, chunks |-> cs]

_parse(d) ==
  IF parse_magic(d) # "loop"
  THEN [error |-> parse_magic(d), chunks |-> EmptyDict, pos |-> 0]
  ELSE LET r == parse_loop(d, 8, EmptyDict)
       IN  [error |-> "none", chunks |-> r.chunks, pos |-> r.pos]

(***************************************************************************)
(* Strings.  A decoded string is the sequence of its character codes.      *)
(***************************************************************************)
\* bytes.decode('utf-8', errors='replace') on ASCII bytes and on the byte
\* 0xFF, which is never valid UTF-8 and decodes to U+FFFD.
decode(bs) == [k \in 1..Len(bs) |-> IF bs[k] < 128 THEN bs[k] ELSE 65533]

\* bytes.find(b'\x00', lo, hi): the first offset in [lo, min(hi, size)) that
\* holds a zero byte, or -1.
find0(d, lo, hi) ==
  LET Z == {k \in lo..(Min(hi, Len(d)) - 1) : d[k + 1] = 0}
  IN  IF Z = {} THEN -1 ELSE CHOOSE k \in Z : \A j \in Z : k <= j

\* The default max_len of DataWin.c_str / DataWin.c_string.
CStrMaxLen == 200

\* DataWin.c_str (gm_asset_viewer.py) and DataWin.c_string (the extras).
c_str(d, o, max_len) ==
  IF o = 0 \/ o >= Len(d) THEN << >>
  ELSE LET end == find0(d, o, o + max_len)
       IN  IF end > o THEN decode(Slice(d, o, end)) ELSE << >>

\* DataWin.gm_string (extras/audio_extractor.py).
gm_string(d, off) ==
  IF off = 0 \/ off >= Len(d) - 4 THEN << >>
  ELSE LET length == u32(d, off)
       IN  IF length = 0 \/ length > 1000000 \/ off + 4 + length > Len(d)
           THEN << >>
           ELSE decode(Slice(d, off + 4, off + 4 + length))

\* str(i) for i >= 0.
RECURSIVE str(_)
str(i) == IF i < 10 THEN << 48 + i >> ELSE str(i \div 10) \o << 48 + (i % 10) >>

\* The prefixes of the f-strings that synthesize a name, by record kind.
Prefix(kind) ==
  CASE kind = "sprite"   -> << 115, 112, 114, 105, 116, 101, 95 >>
    [] kind = "sound"    -> << 115, 111, 117, 110, 100, 95 >>
    [] kind = "object"   -> << 111, 98, 106, 101, 99, 116, 95 >>
    [] kind = "room"     -> << 114, 111, 111, 109, 95 >>
    [] kind = "bg"       -> << 98, 103, 95 >>
    [] kind = "font"     -> << 102, 111, 110, 116, 95 >>
    [] kind = "path"     -> << 112, 97, 116, 104, 95 >>
    [] kind = "script"   -> << 115, 99, 114, 105, 112, 116, 95 >>
    [] kind = "shader"   -> << 115, 104, 97, 100, 101, 114, 95 >>
    [] kind = "ext"      -> << 101, 120, 116, 95 >>
    [] kind = "timeline" -> << 116, 105, 109, 101, 108, 105, 110, 101, 95 >>

\* f"<kind>_{i}"
synth(kind, i) == Prefix(kind) \o str(i)

\* The name expression of every decoder of gm_asset_viewer.py:
\*   self.dw.c_str(name_ptr) if name_ptr else f"<kind>_{i}"
viewer_name(d, name_ptr, kind, i) ==
  IF name_ptr # 0 THEN c_str(d, name_ptr, CStrMaxLen) ELSE synth(kind, i)

\* The name resolution of AudioExtractor.extract_sounds.
audio_name(d, name_ptr, kind, i) ==
  LET n1 == IF name_ptr # 0 /\ name_ptr < Len(d)
            THEN LET g == gm_string(d, name_ptr)
                 IN  IF g = << >> THEN c_str(d, name_ptr, CStrMaxLen) ELSE g
            ELSE << >>
  IN  IF n1 = << >> THEN synth(kind, i) ELSE n1

(***************************************************************************)
(* The buffers name resolution is checked on: a run of letters with or     *)
(* without a terminator, or a length word followed by letters, after four  *)
(* zero bytes.                                                             *)
(***************************************************************************)
Letters(n) == [k \in 1..n |-> 97]

RunLens == {0, 1, 5, CStrMaxLen - 1, CStrMaxLen, CStrMaxLen + 1}

NameBuffers ==
  { Zeros(4) \o Letters(n) \o Zeros(t) : n \in RunLens, t \in 0..1 }
  \cup { Zeros(4) \o pack32(l) \o Letters(n) \o Zeros(t) :
            l \in {0, 1, 3, 4, 1000000, 1000001}, n \in {0, 3}, t \in 0..1 }

NamePtrs(d) == {p \in {0, 4, 8} \cup {Len(d) + k : k \in {-5, -4, -1, 0, 1}} : p >= 0}

InitName ==
  /\ data \in NameBuffers
  /\ pos = 0
  /\ chunks = EmptyDict
  /\ parsePc = "magic"
  /\ nameIn \in { [ptr |-> p, kind |-> k, index |-> i] :
                     p \in NamePtrs(data), k \in {"sprite", "sound"}, i \in {0, 7, 12} }
  /\ nameOut = [viewer |-> Unresolved, audio |-> Unresolved]
  /\ AppInit

\* A decoder of the viewer names the record.
ViewerName ==
  /\ ~nameOut.viewer.done
  /\ nameOut' = [nameOut EXCEPT !.viewer =
        [done |-> TRUE, name |-> viewer_name(data, nameIn.ptr, nameIn.kind, nameIn.index)]]
  /\ UNCHANGED << scanVars, nameIn, appVars, layerVars >>

\* AudioExtractor.extract_sounds names the record.
AudioName ==
  /\ ~nameOut.audio.done
  /\ nameIn.kind = "sound"
  /\ nameOut' = [nameOut EXCEPT !.audio =
        [done |-> TRUE, name |-> audio_name(data, nameIn.ptr, nameIn.kind, nameIn.index)]]
  /\ UNCHANGED << scanVars, nameIn, appVars, layerVars >>

NextName == ViewerName \/ AudioName

SpecName == InitName /\ [][NextName]_vars

(***************************************************************************)
(* Properties of name resolution.                                          *)
(***************************************************************************)
\* The length-prefixed string at p passes its sanity check.
LengthPrefixedOk(d, p) ==
  /\ CanRead(d, p, 4)
  /\ u32(d, p) # 0
  /\ u32(d, p) <= 1000000
  /\ p + 4 + u32(d, p) <= Len(d)

\* The offsets of the zero bytes among the 200 bytes from p.
Terminators(d, p) == {e \in p..(p + 199) : e < Len(d) /\ d[e + 1] = 0}

FirstTerminator(d, p) ==
  CHOOSE e \in Terminators(d, p) : \A f \in Terminators(d, p) : e <= f

\* The name the stated order of attempts gives.
ExpectedName(d, p, kind, i) ==
  IF p = 0 THEN synth(kind, i)
  ELSE IF LengthPrefixedOk(d, p)
       THEN [k \in 1..u32(d, p) |-> d[p + 4 + k]]
  ELSE IF p < Len(d) /\ Terminators(d, p) # {} /\ FirstTerminator(d, p) > p
       THEN [k \in 1..(FirstTerminator(d, p) - p) |-> d[p + k]]
  ELSE synth(kind, i)

\* C7: a name is the length-prefixed string when that passes its sanity
\* check, else the null-terminated string within 200 bytes, else the
\* synthesized "<kind>_<index>"; a zero name pointer gives the synthesized
\* name.
C7_NameFallbackOrder ==
  /\ nameOut.viewer.done =>
       nameOut.viewer.name = ExpectedName(data, nameIn.ptr, nameIn.kind, nameIn.index)
  /\ nameOut.audio.done =>
       nameOut.audio.name = ExpectedName(data, nameIn.ptr, nameIn.kind, nameIn.index)

\* The same, of extras/audio_extractor.py only, which does follow the order.
AudioNameFollowsOrder ==
  nameOut.audio.done =>
     nameOut.audio.name = ExpectedName(data, nameIn.ptr, nameIn.kind, nameIn.index)

(***************************************************************************)
(* The buffers the scan is checked on: every sequence of up to             *)
(* MaxWords + 2 words over a small alphabet, followed by up to MaxTail     *)
(* stray bytes.                                                            *)
(***************************************************************************)
ScanWords == {SPRT, OBJT, 0, 4}

SeqsUpTo(S, n) == UNION {[1..k -> S] : k \in 0..n}

ScanBuffers ==
  { Flatten(<<m, 0>> \o body) \o Zeros(t) :
      m \in {FORM, BADM}, body \in SeqsUpTo(ScanWords, MaxWords), t \in 0..MaxTail }
  \cup { Zeros(t) : t \in 0..3 }

InitScan ==
  /\ data \in ScanBuffers
  /\ pos = 0
  /\ chunks = EmptyDict
  /\ parsePc = "magic"
  /\ NameInit
  /\ AppInit

ParseMagic ==
  /\ parsePc = "magic"
  /\ parsePc' = parse_magic(data)
  /\ pos' = IF parse_magic(data) = "loop" THEN 8 ELSE pos
  /\ UNCHANGED << data, chunks, nameVars, appVars, layerVars >>

ParseIter ==
  /\ parsePc = "loop"
  /\ parse_more(data, pos)
  /\ pos' = parse_iter(data, pos, chunks).pos
  /\ chunks' = parse_iter(data, pos, chunks).chunks
  /\ UNCHANGED << data, parsePc, nameVars, appVars, layerVars >>

ParseExit ==
  /\ parsePc = "loop"
  /\ ~parse_more(data, pos)
  /\ parsePc' = "done"
  /\ UNCHANGED << data, pos, chunks, nameVars, appVars, layerVars >>

NextScan == ParseMagic \/ ParseIter \/ ParseExit

SpecScan == InitScan /\ [][NextScan]_vars

(***************************************************************************)
(* Properties of the scan.                                                 *)
(***************************************************************************)
\* The tags of the headers the loop of _parse reads, in the order read.
RECURSIVE HeaderTags(_, _)
HeaderTags(d, p) ==
  IF p < Len(d) - 8
  THEN << u32(d, p) >> \o HeaderTags(d, p + 8 + u32(d, p + 4))
  ELSE << >>

NoRepeat(s) == \A j, k \in 1..Len(s) : s[j] = s[k] => j = k

StrictlyIncreasingOffsets(cs) ==
  \A j, k \in 1..Len(cs) : j < k => cs[j].offset < cs[k].offset

WellFormedChunks(cs) ==
  \A k \in 1..Len(cs) : cs[k].data_start = cs[k].offset + 8 /\ cs[k].size >= 0

\* The byte ranges [offset, offset + 8 + size) of two entries do not meet.
NoOverlap(cs) ==
  \A j, k \in 1..Len(cs) :
     j # k => \/ cs[j].offset + 8 + cs[j].size <= cs[k].offset
              \/ cs[k].offset + 8 + cs[k].size <= cs[j].offset

\* C8 (as stated): for every buffer with the right magic, repeated tags
\* included, the chunks of the mapping taken in the mapping's order have
\* strictly increasing offsets, payload_start = offset + 8, size >= 0, and
\* no two of them overlap.
C8_ScanOrderedAsStated ==
  parsePc = "done" =>
     /\ StrictlyIncreasingOffsets(DictValues(chunks))
     /\ WellFormedChunks(DictValues(chunks))
     /\ NoOverlap(DictValues(chunks))

\* C8 (amended): every chunk of the mapping has payload_start = offset + 8
\* and size >= 0 and no two chunks overlap; the offsets are strictly
\* increasing in the mapping's order when no tag was scanned twice (a tag
\* scanned again keeps its first place in the order and takes the later
\* offset).
C8_ScanOrdered ==
  parsePc = "done" =>
     /\ WellFormedChunks(DictValues(chunks))
     /\ NoOverlap(DictValues(chunks))
     /\ NoRepeat(HeaderTags(data, 8)) => StrictlyIncreasingOffsets(DictValues(chunks))

\* A finished scan that met a tag twice and still indexed two chunks.
C8_Witness ==
  /\ parsePc = "done"
  /\ Len(chunks.keys) >= 2
  /\ ~NoRepeat(HeaderTags(data, 8))
  /\ \E k \in 1..Len(chunks.map) : chunks.map[k].size > 0

\* C9: the scan stops only when fewer than 8 bytes remain at pos, so a header
\* that occupies the last 8 bytes of the buffer is read and indexed.
C9_StopsOnlyBelowEightBytes ==
  parsePc = "done" => pos + 8 > Len(data)

(***************************************************************************)
(* GameExtractor: the decoders.  A decoder gives the records it appended   *)
(* and whether it raised struct.error (a read outside the buffer); the     *)
(* records appended before the raise stay in the extractor's lists.        *)
(***************************************************************************)
\* Optional values: None is the empty sequence.
None == << >>
Some(x) == << x >>

\* bool(self.dw.u32(o))
bool32(d, o) == \E k \in 1..4 : d[o + k] # 0

\* An IEEE-754 single, kept as its sign, biased exponent and mantissa.
f32(d, o) ==
  [neg |-> d[o + 4] >= 128,
   exp |-> (d[o + 4] % 128) * 2 + (d[o + 3] \div 128),
   man |-> d[o + 1] + 256 * d[o + 2] + 65536 * (d[o + 3] % 128)]

\* f < 0 for a single f: false for both zeros and for a NaN.
f32_neg(f) == f.neg /\ ~(f.exp = 0 /\ f.man = 0) /\ ~(f.exp = 255 /\ f.man # 0)

Least(S) == CHOOSE k \in S : \A j \in S : k <= j
Greatest(S) == CHOOSE k \in S : \A j \in S : k >= j

\* 0, 1, ..., n - 1
Range(n) == [k \in 1..n |-> k - 1]

\* The number of 4-byte pointer slots after the count at off that lie inside
\* the buffer: reading slot i raises unless i < Slots.
Slots(d, off) ==
  IF Len(d) < off + 4 THEN 0 ELSE (Len(d) - (off + 4)) \div 4

\* self.dw.u32(off + 4 + i*4)
ptr_at(d, off, i) == u32(d, off + 4 + i * 4)

\* The skip test of a top-level record: if not ptr or ptr >= size - n: continue
skip_ptr(d, ptr, n) == ptr = 0 \/ ptr >= Len(d) - n

\* The test of a sub-record: if p and p < size - n
ok_ptr(d, p, n) == p # 0 /\ p < Len(d) - n

\* The loop shared by the decoders:
\*   off, count = c.data_start, u32(c.data_start)
\*   for i in range(count): ptr = u32(off + 4 + i*4); if <skip>: continue; ...
\* n is the skip size of the kind; raises[ptr] tells whether the reads of
\* the record body at ptr leave the buffer, record[ptr][i] is the record.
decode_table(d, off, n, raises, record) ==
  IF ~CanRead(d, off, 4) THEN [raised |-> TRUE, recs |-> << >>]
  ELSE LET count == u32(d, off)
           m     == Min(count, Slots(d, off))
           Bad   == {i \in 0..(m - 1) :
                       /\ ~skip_ptr(d, ptr_at(d, off, i), n)
                       /\ raises[ptr_at(d, off, i)]}
           stop  == IF Bad = {} THEN m ELSE Least(Bad)
           kept  == SelectSeq(Range(stop), LAMBDA i : ~skip_ptr(d, ptr_at(d, off, i), n))
       IN  [raised |-> Bad # {} \/ count > Slots(d, off),
            recs   |-> [k \in 1..Len(kept) |->
                          record[ptr_at(d, off, kept[k])][kept[k]]]]

\* A count-prefixed pointer list at lp of which at most n pointers are read:
\* the pointers read, and whether reading them leaves the buffer.
list_raises(d, lp, n) == Min(u32(d, lp), n) > Slots(d, lp)

list_ptrs(d, lp, n) ==
  [k \in 1..Min(Min(u32(d, lp), n), Slots(d, lp)) |-> ptr_at(d, lp, k - 1)]

TPAGEntry(d, tp) ==
  [src_x |-> u16(d, tp),      src_y |-> u16(d, tp + 2),
   src_w |-> u16(d, tp + 4),  src_h |-> u16(d, tp + 6),
   tgt_x |-> u16(d, tp + 8),  tgt_y |-> u16(d, tp + 10),
   tgt_w |-> u16(d, tp + 12), tgt_h |-> u16(d, tp + 14),
   bound_w |-> u16(d, tp + 16), bound_h |-> u16(d, tp + 18),
   tex_id |-> u16(d, tp + 20)]

\* ---- _sprites ----
SpriteMaxFrames == 5000

sprite_fc(d, ptr) == u32(d, ptr + 56)

sprite_raises(d, ptr) ==
  sprite_fc(d, ptr) < SpriteMaxFrames /\ sprite_fc(d, ptr) > Slots(d, ptr + 56)

sprite_frames(d, ptr) ==
  IF sprite_fc(d, ptr) < SpriteMaxFrames
  THEN LET tps  == [k \in 1..Min(sprite_fc(d, ptr), Slots(d, ptr + 56)) |->
                      ptr_at(d, ptr + 56, k - 1)]
           good == SelectSeq(tps, LAMBDA tp :
                      /\ ok_ptr(d, tp, 22)
                      /\ TPAGEntry(d, tp).src_w > 0
                      /\ TPAGEntry(d, tp).src_h > 0)
       IN  [k \in 1..Len(good) |-> TPAGEntry(d, good[k])]
  ELSE << >>

Sprite(d, ptr, i) ==
  [index |-> i,
   name |-> viewer_name(d, u32(d, ptr), "sprite", i),
   width |-> u32(d, ptr + 4), height |-> u32(d, ptr + 8),
   origin_x |-> i32(d, ptr + 48), origin_y |-> i32(d, ptr + 52),
   frames |-> sprite_frames(d, ptr)]

\* ---- _objects ----
GameObject(d, ptr, i) ==
  [index |-> i,
   name |-> viewer_name(d, u32(d, ptr), "object", i),
   sprite_index |-> i32(d, ptr + 4),
   visible |-> bool32(d, ptr + 8), solid |-> bool32(d, ptr + 12),
   depth |-> i32(d, ptr + 16),
   parent_index |-> i32(d, ptr + 24), mask_index |-> i32(d, ptr + 28)]

\* ---- _backgrounds ----
Background(d, ptr, i) ==
  LET tp_ptr == IF ptr + 20 <= Len(d) THEN u32(d, ptr + 16) ELSE 0
  IN  [index |-> i,
       name |-> viewer_name(d, u32(d, ptr), "bg", i),
       tpage |-> IF ok_ptr(d, tp_ptr, 22) THEN Some(TPAGEntry(d, tp_ptr)) ELSE None]

\* ---- _rooms ----
RoomMaxBgs == 8
RoomMaxInstances == 10000
RoomMaxTiles == 50000

RoomBgDef(d, bp) ==
  [visible |-> bool32(d, bp), foreground |-> bool32(d, bp + 4),
   bg_index |-> i32(d, bp + 8), x |-> i32(d, bp + 12), y |-> i32(d, bp + 16),
   tile_h |-> bool32(d, bp + 20), tile_v |-> bool32(d, bp + 24),
   stretch |-> bool32(d, bp + 36)]

RoomInst(d, ip) ==
  [x |-> i32(d, ip), y |-> i32(d, ip + 4),
   obj_idx |-> i32(d, ip + 8), inst_id |-> u32(d, ip + 12)]

RoomTile(d, tp) ==
  [x |-> i32(d, tp), y |-> i32(d, tp + 4), bg_index |-> i32(d, tp + 8),
   src_x |-> i32(d, tp + 12), src_y |-> i32(d, tp + 16),
   width |-> i32(d, tp + 20), height |-> i32(d, tp + 24),
   depth |-> i32(d, tp + 28), inst_id |-> u32(d, tp + 32),
   scale_x |-> f32(d, tp + 36), scale_y |-> f32(d, tp + 40),
   color |-> u32(d, tp + 44)]

\* The pointer list named at field offset f of a record is read when it
\* passes "if lp and lp < size - 4".
list_at(d, ptr, f) == u32(d, ptr + f)
has_list(d, ptr, f) == ok_ptr(d, list_at(d, ptr, f), 4)

room_raises(d, ptr) ==
  \/ /\ has_list(d, ptr, 40)
     /\ \/ list_raises(d, list_at(d, ptr, 40), RoomMaxBgs)
        \/ \E k \in 1..Len(list_ptrs(d, list_at(d, ptr, 40), RoomMaxBgs)) :
              LET bp == list_ptrs(d, list_at(d, ptr, 40), RoomMaxBgs)[k]
              IN  ok_ptr(d, bp, 32) /\ ~CanRead(d, bp + 36, 4)
  \/ has_list(d, ptr, 48) /\ list_raises(d, list_at(d, ptr, 48), RoomMaxInstances)
  \/ has_list(d, ptr, 52) /\ list_raises(d, list_at(d, ptr, 52), RoomMaxTiles)

\* The sub-records of one list of a record: those whose pointer passes
\* "if p and p < size - n"; item[p] is the sub-record at p.
list_items(d, ptr, f, max, n, item) ==
  IF has_list(d, ptr, f)
  THEN LET good == SelectSeq(list_ptrs(d, list_at(d, ptr, f), max),
                             LAMBDA p : ok_ptr(d, p, n))
       IN  [k \in 1..Len(good) |-> item[good[k]]]
  ELSE << >>

Room(d, ptr, i) ==
  [index |-> i,
   name |-> viewer_name(d, u32(d, ptr), "room", i),
   width |-> u32(d, ptr + 8), height |-> u32(d, ptr + 12),
   speed |-> u32(d, ptr + 16), color |-> u32(d, ptr + 24),
   instances |-> list_items(d, ptr, 48, RoomMaxInstances, 16, [p \in Nat |-> RoomInst(d, p)]),
   bg_defs   |-> list_items(d, ptr, 40, RoomMaxBgs, 32, [p \in Nat |-> RoomBgDef(d, p)]),
   tiles     |-> list_items(d, ptr, 52, RoomMaxTiles, 48, [p \in Nat |-> RoomTile(d, p)])]

\* ---- _textures and _extract_png ----
PngSignature == << 137, 80, 78, 71, 13, 10, 26, 10 >>
IEND == << 73, 69, 78, 68 >>

\* struct.unpack('>I', ...): a big-endian length.
be32(d, o) == Byte4(d[o + 4], d[o + 3], d[o + 2], d[o + 1])

RECURSIVE png_scan(_, _, _)
png_scan(d, off, p) ==
  IF p < Len(d) - 12
  THEN LET next == p + 12 + be32(d, p)
       IN  IF Slice(d, p + 4, p + 8) = IEND THEN Slice(d, off, next)
           ELSE png_scan(d, off, next)
  ELSE << >>

extract_png(d, off) ==
  IF Slice(d, off, off + 8) # PngSignature THEN << >>
  ELSE png_scan(d, off, off + 8)

texture_at(d, entry) ==
  IF ok_ptr(d, entry, 8)
  THEN LET data_ptr == u32(d, entry + 4)
       IN  IF data_ptr # 0 /\ data_ptr < Len(d) THEN extract_png(d, data_ptr) ELSE << >>
  ELSE << >>

\* _textures keeping the files found only, without the empty entries.
decode_textures_found(d, off) ==
  IF ~CanRead(d, off, 4) THEN [raised |-> TRUE, recs |-> << >>]
  ELSE [raised |-> u32(d, off) > Slots(d, off),
        recs   |-> SelectSeq([k \in 1..Min(u32(d, off), Slots(d, off)) |->
                                texture_at(d, ptr_at(d, off, k - 1))],
                             LAMBDA png : png # << >>)]

decode_textures(d, off) ==
  IF ~CanRead(d, off, 4) THEN [raised |-> TRUE, recs |-> << >>]
  ELSE [raised |-> u32(d, off) > Slots(d, off),
        recs   |-> [k \in 1..Min(u32(d, off), Slots(d, off)) |->
                      texture_at(d, ptr_at(d, off, k - 1))]]

\* ---- _sounds ----
opt_str(d, p) == IF p # 0 THEN c_str(d, p, CStrMaxLen) ELSE << >>

SoundDef(d, ptr, i) ==
  [index |-> i,
   name |-> viewer_name(d, u32(d, ptr), "sound", i),
   type_str |-> opt_str(d, u32(d, ptr + 8)),
   file_str |-> opt_str(d, u32(d, ptr + 12)),
   volume |-> f32(d, ptr + 16), pitch |-> f32(d, ptr + 20),
   audio_id |-> i32(d, ptr + 28)]

\* ---- _audio: a dict from slot to bytes ----
AudioMaxLen == 50000000

audio_ok(d, ptr) ==
  /\ ~skip_ptr(d, ptr, 4)
  /\ 0 < u32(d, ptr) /\ u32(d, ptr) < AudioMaxLen
  /\ ptr + 4 + u32(d, ptr) <= Len(d)

decode_audio(d, off) ==
  IF ~CanRead(d, off, 4) THEN [raised |-> TRUE, recs |-> << >>]
  ELSE LET m == Min(u32(d, off), Slots(d, off))
           K == {i \in 0..(m - 1) : audio_ok(d, ptr_at(d, off, i))}
       IN  [raised |-> u32(d, off) > Slots(d, off),
            recs   |-> [i \in K |-> Slice(d, ptr_at(d, off, i) + 4,
                                          ptr_at(d, off, i) + 4 + u32(d, ptr_at(d, off, i)))]]

\* ---- _strings ----
StringsMax == 100000

string_at(d, ptr) ==
  IF ok_ptr(d, ptr, 4) /\ u32(d, ptr) < 10000 /\ ptr + 4 + u32(d, ptr) <= Len(d)
  THEN decode(Slice(d, ptr + 4, ptr + 4 + u32(d, ptr)))
  ELSE << >>

decode_strings(d, off) ==
  IF ~CanRead(d, off, 4) THEN [raised |-> TRUE, recs |-> << >>]
  ELSE LET n == Min(u32(d, off), StringsMax)
       IN  [raised |-> n > Slots(d, off),
            recs   |-> [k \in 1..Min(n, Slots(d, off)) |->
                          string_at(d, ptr_at(d, off, k - 1))]]

\* ---- _fonts ----
FontMaxGlyphs == 1000

FontGlyph(d, gp) ==
  [char |-> u16(d, gp), x |-> u16(d, gp + 2), y |-> u16(d, gp + 4),
   w |-> u16(d, gp + 6), h |-> u16(d, gp + 8), shift |-> u16(d, gp + 10),
   offset |-> IF u16(d, gp + 12) >= 32768 THEN u16(d, gp + 12) - 65536
              ELSE u16(d, gp + 12)]

font_raises(d, ptr) ==
  has_list(d, ptr, 44) /\ list_raises(d, list_at(d, ptr, 44), FontMaxGlyphs)

Font(d, ptr, i) ==
  [index |-> i,
   name |-> viewer_name(d, u32(d, ptr), "font", i),
   display_name |-> opt_str(d, u32(d, ptr + 4)),
   size |-> f32(d, ptr + 8),
   bold |-> bool32(d, ptr + 12), italic |-> bool32(d, ptr + 16),
   range_start |-> u16(d, ptr + 20), range_end |-> u16(d, ptr + 24),
   tpage |-> IF ok_ptr(d, u32(d, ptr + 28), 22)
             THEN Some(TPAGEntry(d, u32(d, ptr + 28))) ELSE None,
   glyphs |-> list_items(d, ptr, 44, FontMaxGlyphs, 28, [p \in Nat |-> FontGlyph(d, p)])]

\* ---- _paths ----
PathMaxPoints == 10000

PathPoint(d, o) == [x |-> f32(d, o), y |-> f32(d, o + 4), speed |-> f32(d, o + 8)]

Path(d, ptr, i) ==
  LET fit == (Len(d) - (ptr + 20)) \div 12
      n   == Min(Min(u32(d, ptr + 16), PathMaxPoints), fit)
  IN  [index |-> i,
       name |-> viewer_name(d, u32(d, ptr), "path", i),
       smooth |-> bool32(d, ptr + 4), closed |-> bool32(d, ptr + 8),
       precision |-> u32(d, ptr + 12),
       points |-> [k \in 1..n |-> PathPoint(d, ptr + 20 + 12 * (k - 1))]]

\* ---- _scripts, _shaders, _extensions, _timelines ----
Script(d, ptr, i) ==
  [index |-> i, name |-> viewer_name(d, u32(d, ptr), "script", i),
   code_id |-> i32(d, ptr + 4)]

Shader(d, ptr, i) ==
  [index |-> i, name |-> viewer_name(d, u32(d, ptr), "shader", i),
   type_str |-> opt_str(d, u32(d, ptr + 4)),
   vertex_code |-> opt_str(d, u32(d, ptr + 8)),
   fragment_code |-> opt_str(d, u32(d, ptr + 12))]

Extension(d, ptr, i) ==
  [index |-> i, name |-> viewer_name(d, u32(d, ptr), "ext", i),
   class_name |-> opt_str(d, u32(d, ptr + 4))]

Timeline(d, ptr, i) ==
  [index |-> i, name |-> viewer_name(d, u32(d, ptr), "timeline", i),
   moment_count |-> u32(d, ptr + 4)]

\* ---- _gen8 ----
gen8_raises(d, off) == ~CanRead(d, off + 4, 4) \/ ~CanRead(d, off + 20, 4)

GameInfo(d, off) ==
  [name |-> opt_str(d, u32(d, off + 4)), game_id |-> u32(d, off + 20)]

(***************************************************************************)
(* The extractor and the steps of extract_all.                             *)
(***************************************************************************)
\* GameExtractor.__init__
GameExtractor ==
  [info |-> None, sprites |-> << >>, sounds |-> << >>, objects |-> << >>,
   rooms |-> << >>, backgrounds |-> << >>, textures |-> << >>, audio |-> << >>,
   sprite_map |-> << >>, object_map |-> << >>,
   fonts |-> << >>, paths |-> << >>, scripts |-> << >>, shaders |-> << >>,
   extensions |-> << >>, timelines |-> << >>, strings |-> << >>]

\* index -> record, as the decoders fill sprite_map and object_map.
index_map(recs) ==
  [i \in {recs[k].index : k \in 1..Len(recs)} |->
     recs[CHOOSE k \in 1..Len(recs) : recs[k].index = i]]

Steps == << "gen8", "strings", "sprites", "sounds", "audio", "objects", "rooms",
            "backgrounds", "textures", "fonts", "paths", "scripts", "shaders",
            "extensions", "timelines" >>

ChunkOf(step) ==
  CASE step = "gen8" -> GEN8          [] step = "strings" -> Byte4(83, 84, 82, 71)
    [] step = "sprites" -> SPRT       [] step = "sounds" -> SOND
    [] step = "audio" -> Byte4(65, 85, 68, 79)
    [] step = "objects" -> OBJT       [] step = "rooms" -> ROOM
    [] step = "backgrounds" -> BGND   [] step = "textures" -> TXTR
    [] step = "fonts" -> FONT         [] step = "paths" -> Byte4(80, 65, 84, 72)
    [] step = "scripts" -> Byte4(83, 67, 80, 84)
    [] step = "shaders" -> Byte4(83, 72, 68, 82)
    [] step = "extensions" -> Byte4(69, 88, 84, 78)
    [] step = "timelines" -> Byte4(84, 77, 76, 78)

\* What a decoder does when its chunk is present: the extractor afterwards
\* and whether the decoder raised.
decode_step(step, d, off, e) ==
  CASE step = "gen8" ->
         IF gen8_raises(d, off) THEN [raised |-> TRUE, ext |-> e]
         ELSE [raised |-> FALSE, ext |-> [e EXCEPT !.info = Some(GameInfo(d, off))]]
    [] step = "strings" ->
         LET r == decode_strings(d, off)
         IN  [raised |-> r.raised, ext |-> [e EXCEPT !.strings = e.strings \o r.recs]]
    [] step = "sprites" ->
         LET r == decode_table(d, off, 64, [p \in Nat |-> sprite_raises(d, p)],
                                [p \in Nat |-> [i \in Nat |-> Sprite(d, p, i)]])
         IN  [raised |-> r.raised,
              ext |-> [e EXCEPT !.sprites = e.sprites \o r.recs,
                                !.sprite_map = index_map(e.sprites \o r.recs)]]
    [] step = "sounds" ->
         LET r == decode_table(d, off, 32, [p \in Nat |-> FALSE],
                                [p \in Nat |-> [i \in Nat |-> SoundDef(d, p, i)]])
         IN  [raised |-> r.raised, ext |-> [e EXCEPT !.sounds = e.sounds \o r.recs]]
    [] step = "audio" ->
         LET r == decode_audio(d, off)
         IN  [raised |-> r.raised, ext |-> [e EXCEPT !.audio = r.recs]]
    [] step = "objects" ->
         LET r == decode_table(d, off, 32, [p \in Nat |-> FALSE],
                                [p \in Nat |-> [i \in Nat |-> GameObject(d, p, i)]])
         IN  [raised |-> r.raised,
              ext |-> [e EXCEPT !.objects = e.objects \o r.recs,
                                !.object_map = index_map(e.objects \o r.recs)]]
    [] step = "rooms" ->
         LET r == decode_table(d, off, 100, [p \in Nat |-> room_raises(d, p)],
                                [p \in Nat |-> [i \in Nat |-> Room(d, p, i)]])
         IN  [raised |-> r.raised, ext |-> [e EXCEPT !.rooms = e.rooms \o r.recs]]
    [] step = "backgrounds" ->
         LET r == decode_table(d, off, 20, [p \in Nat |-> FALSE],
                                [p \in Nat |-> [i \in Nat |-> Background(d, p, i)]])
         IN  [raised |-> r.raised,
              ext |-> [e EXCEPT !.backgrounds = e.backgrounds \o r.recs]]
    [] step = "textures" ->
         LET r == decode_textures(d, off)
         IN  [raised |-> r.raised, ext |-> [e EXCEPT !.textures = e.textures \o r.recs]]
    [] step = "fonts" ->
         LET r == decode_table(d, off, 48, [p \in Nat |-> font_raises(d, p)],
                                [p \in Nat |-> [i \in Nat |-> Font(d, p, i)]])
         IN  [raised |-> r.raised, ext |-> [e EXCEPT !.fonts = e.fonts \o r.recs]]
    [] step = "paths" ->
         LET r == decode_table(d, off, 20, [p \in Nat |-> FALSE],
                                [p \in Nat |-> [i \in Nat |-> Path(d, p, i)]])
         IN  [raised |-> r.raised, ext |-> [e EXCEPT !.paths = e.paths \o r.recs]]
    [] step = "scripts" ->
         LET r == decode_table(d, off, 8, [p \in Nat |-> FALSE],
                                [p \in Nat |-> [i \in Nat |-> Script(d, p, i)]])
         IN  [raised |-> r.raised, ext |-> [e EXCEPT !.scripts = e.scripts \o r.recs]]
    [] step = "shaders" ->
         LET r == decode_table(d, off, 16, [p \in Nat |-> FALSE],
                                [p \in Nat |-> [i \in Nat |-> Shader(d, p, i)]])
         IN  [raised |-> r.raised, ext |-> [e EXCEPT !.shaders = e.shaders \o r.recs]]
    [] step = "extensions" ->
         LET r == decode_table(d, off, 8, [p \in Nat |-> FALSE],
                                [p \in Nat |-> [i \in Nat |-> Extension(d, p, i)]])
         IN  [raised |-> r.raised,
              ext |-> [e EXCEPT !.extensions = e.extensions \o r.recs]]
    [] step = "timelines" ->
         LET r == decode_table(d, off, 8, [p \in Nat |-> FALSE],
                                [p \in Nat |-> [i \in Nat |-> Timeline(d, p, i)]])
         IN  [raised |-> r.raised,
              ext |-> [e EXCEPT !.timelines = e.timelines \o r.recs]]

\* One step of extract_all: "if <tag> not in self.dw.chunks: return", else
\* the decoder.
run_step(step, d, cs, e) ==
  IF ~DictHas(cs, ChunkOf(step)) THEN [raised |-> FALSE, ext |-> e]
  ELSE decode_step(step, d, DictGet(cs, ChunkOf(step)).data_start, e)

(***************************************************************************)
(* Archives: byte buffers laid out as the decoders expect.  An archive of  *)
(* one chunk is                                                            *)
(*    'FORM' size | tag size | count | pointer table | pre | records | post*)
(* with its end moved by adj bytes (cut when negative, padded otherwise).  *)
(***************************************************************************)
\* A pointer far outside every buffer of the model.
FarPtr == 1000000

pack16(v) == << v % 256, (v \div 256) % 256 >>

RECURSIVE Flatten16(_)
Flatten16(hs) == IF hs = << >> THEN << >> ELSE pack16(Head(hs)) \o Flatten16(Tail(hs))

RECURSIVE Repeat(_, _)
Repeat(bs, k) == IF k = 0 THEN << >> ELSE bs \o Repeat(bs, k - 1)

AdjustEnd(buf, adj) ==
  IF adj >= 0 THEN buf \o Zeros(adj) ELSE SubSeq(buf, 1, Len(buf) + adj)

\* The number of "rec" slots before slot i.
RecsBefore(slots, i) == Cardinality({k \in 1..(i - 1) : slots[k] = "rec"})

NumRecs(slots) == RecsBefore(slots, Len(slots) + 1)

\* The offset of the pre area of a chunk at offset b0 with n pointer slots.
PreBase(b0, n) == b0 + 12 + 4 * n

\* The pointer of slot i: zero, far outside, or at its L-byte record.
SlotPtr(slots, i, R, L) ==
  CASE slots[i] = "zero" -> 0
    [] slots[i] = "far"  -> FarPtr
    [] slots[i] = "rec"  -> R + L * RecsBefore(slots, i)

\* A chunk at offset b0: header, count, pointer table, pre, records, post.
Section(tag, b0, slots, pre, rec, post) ==
  LET n    == Len(slots)
      R    == PreBase(b0, n) + Len(pre)
      body == pre \o Repeat(rec, NumRecs(slots)) \o post
  IN  Flatten(<< tag, 4 + 4 * n + Len(body), n >>
              \o [i \in 1..n |-> SlotPtr(slots, i, R, Len(rec))])
      \o body

\* The 8-byte header of an archive.
Header == Flatten(<< FORM, 0 >>)

\* The name "ab" followed by two zero bytes, and the four name pointers the
\* archives use: none, at "ab", at a zero byte, outside the buffer.
NameArea == << 97, 98, 0, 0 >>

NamePtr(sel, B) ==
  CASE sel = "zero" -> 0
    [] sel = "good" -> B
    [] sel = "empty" -> B + 2
    [] sel = "outside" -> FarPtr

NameSels == {"zero", "good", "empty", "outside"}

SlotKinds == {"zero", "rec", "far"}

\* A 22-byte atlas region (padded to 24): the rectangle (x, y, w, h) of
\* page tex.
TpagBytes(x, y, w, h, tex) ==
  Flatten16(<< x, y, w, h, 0, 0, w, h, w, h, tex, 0 >>)

\* ---- objects: 32-byte records ----
ObjectSection(b0, slots, sel) ==
  LET B == PreBase(b0, Len(slots))
  IN  Section(OBJT, b0, slots, NameArea,
              Flatten(<< NamePtr(sel, B), 0, 1, 0, 5, 0, -1, -1 >>), << >>)

\* ---- backgrounds: 20-byte records, the region in the pre area ----
BackgroundSection(b0, slots, sel) ==
  LET B == PreBase(b0, Len(slots))
  IN  Section(BGND, b0, slots, NameArea \o TpagBytes(0, 0, 2, 2, 0),
              Flatten(<< NamePtr(sel, B), 0, 0, 0, B + 4 >>), << >>)

\* ---- sprites: 60 bytes and two frame pointer slots, fc frames declared ----
SpriteSection(b0, slots, sel, fc) ==
  LET B == PreBase(b0, Len(slots))
  IN  Section(SPRT, b0, slots, NameArea \o TpagBytes(0, 0, 2, 2, 0),
              Flatten(<< NamePtr(sel, B), 2, 2, 0, 0, 0, 0, 0, 0, 0, 0, 0,
                         1, 1, fc, B + 4, B + 4 >>), << >>)

\* ---- rooms: 100-byte records; the background, tile and instance lists ----
\* ---- of nb, nt and ni pointers follow the records                     ----
One32 == Byte4(0, 0, 128, 63)     \* the bits of the float 1.0

RoomPre ==
  NameArea
  \o Flatten(<< 3, 4, 0, 77 >>)                                     \* an instance
  \o Flatten(<< 1, 2, 0, 0, 0, 2, 2, 7, 9, One32, One32, 0 >>)      \* a tile
  \o Flatten(<< 1, 0, 0, 0, 0, 0, 0, 0, 0, 0 >>)                    \* a background slot

RoomSection(b0, slots, sel, nb, nt, ni) ==
  LET B    == PreBase(b0, Len(slots))
      P    == B + Len(RoomPre) + 100 * NumRecs(slots)
      inst == B + 4
      tile == B + 20
      bgd  == B + 68
      post == Flatten(<< nb >> \o [k \in 1..nb |-> bgd]
                      \o << nt >> \o [k \in 1..nt |-> tile]
                      \o << ni >> \o [k \in 1..ni |-> inst])
  IN  Section(ROOM, b0, slots, RoomPre,
              Flatten(<< NamePtr(sel, B), 0, 4, 4, 30, 0, 0, 0, 0, 0,
                         P, 0, P + 8 + 4 * nb + 4 * nt, P + 4 + 4 * nb >>)
              \o Zeros(44),
              post)

\* ---- the kinds with a name and a few words: records of 4 + 4 * k bytes ----
SmallSection(tag, b0, slots, sel, k) ==
  LET B == PreBase(b0, Len(slots))
  IN  Section(tag, b0, slots, NameArea,
              Flatten(<< NamePtr(sel, B) >>) \o Zeros(4 * k), << >>)

\* ---- fonts: 48-byte records, no glyph list ----
FontSection(b0, slots, sel) ==
  LET B == PreBase(b0, Len(slots))
  IN  Section(FONT, b0, slots, NameArea,
              Flatten(<< NamePtr(sel, B), 0, 0, 0, 0, 32, 127, 0, 0, 0, 0, 0 >>), << >>)

\* ---- sounds: 32-byte records ----
SoundSection(b0, slots, sel) ==
  LET B == PreBase(b0, Len(slots))
  IN  Section(SOND, b0, slots, NameArea,
              Flatten(<< NamePtr(sel, B), 0, 0, 0, One32, One32, 0, 0 >>), << >>)

\* ---- textures: 8-byte entries (a word, the pointer of the file), the ----
\* ---- image files after them                                          ----
RECURSIVE Concat(_)
Concat(ss) == IF ss = << >> THEN << >> ELSE Head(ss) \o Concat(Tail(ss))

TextureSection(b0, files) ==
  LET n == Len(files)
      E == PreBase(b0, n)
      F == E + 8 * n
      at(k) == F + Len(Concat(SubSeq(files, 1, k - 1)))
  IN  Flatten(<< TXTR, 4 + 12 * n + Len(Concat(files)), n >>
              \o [k \in 1..n |-> E + 8 * (k - 1)])
      \o Flatten(Concat([k \in 1..n |-> << 0, at(k) >>]))
      \o Concat(files)

\* ---- one room of the given size with its background slots (10 words ----
\* ---- each), tiles (12 words) and instances (4 words)                ----
NegOne32 == Byte4(0, 0, 128, 191 - 256)     \* the bits of the float -1.0
Two32 == Byte4(0, 0, 0, 64)                 \* the bits of the float 2.0

BgWords(visible, foreground, bg_index, x, y) ==
  << visible, foreground, bg_index, x, y, 0, 0, 0, 0, 0 >>

TileWords(x, y, bg_index, src_x, src_y, w, h, depth, inst_id, sx, sy) ==
  << x, y, bg_index, src_x, src_y, w, h, depth, inst_id, sx, sy, 0 >>

InstWords(x, y, obj_idx, inst_id) == << x, y, obj_idx, inst_id >>

RoomOf(b0, sel, w, h, bgs, tiles, insts) ==
  LET B    == PreBase(b0, 1)
      nb   == Len(bgs)
      nt   == Len(tiles)
      ni   == Len(insts)
      bgAt(k)   == B + 4 + 40 * (k - 1)
      tileAt(k) == B + 4 + 40 * nb + 48 * (k - 1)
      instAt(k) == B + 4 + 40 * nb + 48 * nt + 16 * (k - 1)
      P    == B + 4 + 40 * nb + 48 * nt + 16 * ni + 100
      post == Flatten(<< nb >> \o [k \in 1..nb |-> bgAt(k)]
                      \o << nt >> \o [k \in 1..nt |-> tileAt(k)]
                      \o << ni >> \o [k \in 1..ni |-> instAt(k)])
  IN  Section(ROOM, b0, << "rec" >>,
              NameArea \o Flatten(Concat(bgs) \o Concat(tiles) \o Concat(insts)),
              Flatten(<< NamePtr(sel, B), 0, w, h, 30, 0, 0, 0, 0, 0,
                         P, 0, P + 8 + 4 * nb + 4 * nt, P + 4 + 4 * nb >>)
              \o Zeros(44),
              post)

(***************************************************************************)
(* Images.  An image is its size and its pixels, row by row; a pixel is 0  *)
(* when transparent and the id of its colour otherwise.                    *)
(***************************************************************************)
Pixel(img, x, y) == img.px[y * img.width + x + 1]

\* Image.crop((x0, y0, x1, y1)): what lies outside the image is transparent.
crop(img, x0, y0, x1, y1) ==
  LET w == Max(x1 - x0, 0)
      h == Max(y1 - y0, 0)
  IN  [width |-> w, height |-> h,
       px |-> [k \in 1..(w * h) |->
                 LET x == x0 + ((k - 1) % w)
                     y == y0 + ((k - 1) \div w)
                 IN  IF x >= 0 /\ x < img.width /\ y >= 0 /\ y < img.height
                     THEN Pixel(img, x, y) ELSE 0]]

\* Image.new('RGBA', (w, h), c)
Image_new(w, h, c) == [width |-> w, height |-> h, px |-> [k \in 1..(w * h) |-> c]]

\* img.paste(src, (dx, dy), src): the opaque pixels of src replace those of
\* img, what falls outside img is clipped.
paste(img, src, dx, dy) ==
  [img EXCEPT !.px =
     [k \in 1..(img.width * img.height) |->
        LET sx == ((k - 1) % img.width) - dx
            sy == ((k - 1) \div img.width) - dy
        IN  IF /\ sx >= 0 /\ sx < src.width /\ sy >= 0 /\ sy < src.height
               /\ Pixel(src, sx, sy) # 0
            THEN Pixel(src, sx, sy) ELSE img.px[k]]]

\* img.paste(src, (dx, dy)): every pixel of src replaces that of img.
paste_all(img, src, dx, dy) ==
  [img EXCEPT !.px =
     [k \in 1..(img.width * img.height) |->
        LET sx == ((k - 1) % img.width) - dx
            sy == ((k - 1) \div img.width) - dy
        IN  IF sx >= 0 /\ sx < src.width /\ sy >= 0 /\ sy < src.height
            THEN Pixel(src, sx, sy) ELSE img.px[k]]]

\* img.transpose(FLIP_LEFT_RIGHT) and img.transpose(FLIP_TOP_BOTTOM)
flip_left_right(img) ==
  [img EXCEPT !.px = [k \in 1..(img.width * img.height) |->
     Pixel(img, img.width - 1 - ((k - 1) % img.width), (k - 1) \div img.width)]]

flip_top_bottom(img) ==
  [img EXCEPT !.px = [k \in 1..(img.width * img.height) |->
     Pixel(img, (k - 1) % img.width, img.height - 1 - ((k - 1) \div img.width))]]

\* img.resize((w, h), NEAREST): the pixel under the centre of each new pixel.
resize_nearest(img, w, h) ==
  [width |-> w, height |-> h,
   px |-> [k \in 1..(w * h) |->
             Pixel(img, ((2 * ((k - 1) % w) + 1) * img.width) \div (2 * w),
                        ((2 * ((k - 1) \div w) + 1) * img.height) \div (2 * h))]]

\* img.resize((w, h), BILINEAR): an image of one colour keeps it; the blend
\* of several colours is kept as the one value Blended.
Blended == 0 - 1

resize_bilinear(img, w, h) ==
  IF \A k \in 1..Len(img.px) : img.px[k] = img.px[1]
  THEN Image_new(w, h, IF img.px = << >> THEN 0 ELSE img.px[1])
  ELSE Image_new(w, h, Blended)

\* The opaque colour (room.color >> 16 & 0xFF, >> 8 & 0xFF, & 0xFF, 255), as
\* a pixel that no texture holds.
room_colour(color) == 0 - 2 - (color % 16777216)

\* ---- abs(f) * n for a single f and an integer n >= 0 ----
RECURSIVE Pow2(_)
Pow2(k) == IF k = 0 THEN 1 ELSE 2 * Pow2(k - 1)

\* Neither an infinity nor a NaN.
f32_finite(f) == f.exp # 255

\* The numerator and the binary exponent of abs(f): abs(f) = num / 2^den2.
f32_num(f) == IF f.exp = 0 THEN f.man ELSE 8388608 + f.man
f32_den2(f) == IF f.exp = 0 THEN 149 ELSE 150 - f.exp

\* int(abs(f) * n): the product rounded down.  The product of the numerator
\* and n fits in 31 bits, so a denominator above 2^30 leaves nothing.
abs_mul_floor(f, n) ==
  LET prod == f32_num(f) * n
  IN  IF f32_den2(f) <= 0 THEN prod * Pow2(0 - f32_den2(f))
      ELSE IF f32_den2(f) > 30 THEN (prod \div Pow2(30)) \div 2
      ELSE prod \div Pow2(f32_den2(f))

\* abs(f) * n is a whole number.
abs_mul_whole(f, n) ==
  LET prod == f32_num(f) * n
  IN  \/ prod = 0
      \/ f32_den2(f) <= 0
      \/ f32_den2(f) <= 30 /\ prod % Pow2(f32_den2(f)) = 0

\* A position that a flip leaves where it is.
int_unmoved(x, f, n) == x

\* int(x - abs(f) * n): int() rounds towards zero.
int_minus(x, f, n) ==
  IF abs_mul_whole(f, n) \/ x - abs_mul_floor(f, n) <= 0
  THEN x - abs_mul_floor(f, n)
  ELSE x - abs_mul_floor(f, n) - 1

\* Image.open(BytesIO(data)).convert('RGBA') on the images of the model: the
\* signature, an IHDR block with the size, one IDAT block holding one byte
\* per pixel, and the IEND block.  Anything else fails to open.
IHDR == << 73, 72, 68, 82 >>
IDAT == << 73, 68, 65, 84 >>

Image_opens(bs) ==
  /\ Len(bs) >= 57
  /\ Slice(bs, 0, 8) = PngSignature
  /\ be32(bs, 8) = 13 /\ Slice(bs, 12, 16) = IHDR
  /\ Slice(bs, 37, 41) = IDAT
  /\ be32(bs, 33) = be32(bs, 16) * be32(bs, 20)
  /\ Len(bs) = 57 + be32(bs, 33)
  /\ Slice(bs, 49 + be32(bs, 33), 53 + be32(bs, 33)) = IEND

Image_open(bs) ==
  [width |-> be32(bs, 16), height |-> be32(bs, 20),
   px |-> Slice(bs, 41, 41 + be32(bs, 33))]

\* The bytes of such an image file.
PngBytes(w, h, px) ==
  PngSignature
  \o << 0, 0, 0, 13 >> \o IHDR \o << 0, 0, 0, w, 0, 0, 0, h >> \o << 8, 6, 0, 0, 0 >> \o Zeros(4)
  \o << 0, 0, 0, Len(px) >> \o IDAT \o px \o Zeros(4)
  \o Zeros(4) \o IEND \o Zeros(4)

(***************************************************************************)
(* App._load_textures and RoomRenderer.__init__.                           *)
(***************************************************************************)
\* self.textures.clear(), then every texture that opens, under its slot.
load_textures(e) ==
  [i \in {k \in 0..(Len(e.textures) - 1) :
            e.textures[k + 1] # << >> /\ Image_opens(e.textures[k + 1])} |->
     Image_open(e.textures[i + 1])]

\* The same without the test of the region against the page.
has_tileset_unchecked(bg, texs) ==
  /\ bg.tpage # None
  /\ bg.tpage[1].tex_id \in DOMAIN texs

\* The test of _build_tileset_cache before it crops.
has_tileset(bg, texs) ==
  /\ bg.tpage # None
  /\ bg.tpage[1].tex_id \in DOMAIN texs
  /\ bg.tpage[1].src_x + bg.tpage[1].src_w <= texs[bg.tpage[1].tex_id].width
  /\ bg.tpage[1].src_y + bg.tpage[1].src_h <= texs[bg.tpage[1].tex_id].height

tileset_of(bg, texs) ==
  LET tpe == bg.tpage[1]
  IN  crop(texs[tpe.tex_id], tpe.src_x, tpe.src_y,
           tpe.src_x + tpe.src_w, tpe.src_y + tpe.src_h)

\* RoomRenderer._build_tileset_cache: bg.index -> the crop of its region; a
\* later background with the same index would overwrite an earlier one.
build_tileset_cache(e, texs) ==
  LET good == SelectSeq(e.backgrounds, LAMBDA bg : has_tileset(bg, texs))
  IN  [i \in {good[k].index : k \in 1..Len(good)} |->
         tileset_of(good[Greatest({k \in 1..Len(good) : good[k].index = i})], texs)]

\* RoomRenderer.__init__: the renderer keeps the extractor it was given; its
\* textures are the App's dict itself.
RoomRenderer(e, texs) ==
  [ext |-> e, tileset_cache |-> build_tileset_cache(e, texs), room_cache |-> << >>]

\* sorted(s, key): stable, a \prec b the strict order of the keys of a and b.
sorted(s, _ \prec _) ==
  LET before(j, k) == s[j] \prec s[k] \/ (~(s[k] \prec s[j]) /\ j < k)
      rank(k) == Cardinality({j \in 1..Len(s) : before(j, k)}) + 1
  IN  [r \in 1..Len(s) |-> s[CHOOSE k \in 1..Len(s) : rank(k) = r]]

\* enumerate(s): the pairs (position, element), positions from 0.
enumerate(s) == [k \in 1..Len(s) |-> [i |-> k - 1, v |-> s[k]]]

(***************************************************************************)
(* RoomRenderer.render_room.  rr is the renderer, texs the textures of the *)
(* App, which the renderer shares.  Besides the image and the rectangles   *)
(* of the tiles, a render yields the list of what it painted, in the order *)
(* of the paste calls.  The outline of the highlighted tile is kept with   *)
(* the image as the rectangle drawn, not as pixels.                        *)
(***************************************************************************)
get_tile_image(rr, texs, tile) ==
  IF tile.bg_index \notin DOMAIN rr.tileset_cache THEN None
  ELSE IF tile.width <= 0 \/ tile.height <= 0 THEN None
  ELSE LET tileset == rr.tileset_cache[tile.bg_index]
           tw == tile.width
           th == tile.height
       IN  IF /\ tile.src_x >= 0 /\ tile.src_y >= 0
              /\ tile.src_x + tw <= tileset.width /\ tile.src_y + th <= tileset.height
           THEN Some(crop(tileset, tile.src_x, tile.src_y, tile.src_x + tw, tile.src_y + th))
           ELSE IF tile.bg_index >= Len(rr.ext.backgrounds) THEN None
           ELSE LET bg == rr.ext.backgrounds[tile.bg_index + 1]
                IN  IF bg.tpage = None \/ bg.tpage[1].tex_id \notin DOMAIN texs THEN None
                    ELSE LET tex   == texs[bg.tpage[1].tex_id]
                             abs_x == bg.tpage[1].src_x + tile.src_x
                             abs_y == bg.tpage[1].src_y + tile.src_y
                         IN  IF /\ abs_x >= 0 /\ abs_y >= 0
                                /\ abs_x + tw <= tex.width /\ abs_y + th <= tex.height
                             THEN Some(crop(tex, abs_x, abs_y, abs_x + tw, abs_y + th))
                             ELSE None

\* The same with the region pasted at the corner of the sprite.
get_sprite_frame_at_origin(texs, tpe, sprite_w, sprite_h) ==
  IF tpe.tex_id \notin DOMAIN texs THEN None
  ELSE LET tex == texs[tpe.tex_id]
       IN  IF \/ tpe.src_x < 0 \/ tpe.src_y < 0 \/ tpe.src_w <= 0 \/ tpe.src_h <= 0
              \/ tpe.src_x + tpe.src_w > tex.width \/ tpe.src_y + tpe.src_h > tex.height
           THEN None
           ELSE LET c == crop(tex, tpe.src_x, tpe.src_y,
                              tpe.src_x + tpe.src_w, tpe.src_y + tpe.src_h)
                IN  IF sprite_w > 0 /\ sprite_h > 0
                    THEN Some(paste_all(Image_new(sprite_w, sprite_h, 0), c, 0, 0))
                    ELSE Some(c)

\* RoomRenderer._get_sprite_frame
get_sprite_frame(texs, tpe, sprite_w, sprite_h) ==
  IF tpe.tex_id \notin DOMAIN texs THEN None
  ELSE LET tex == texs[tpe.tex_id]
       IN  IF \/ tpe.src_x < 0 \/ tpe.src_y < 0 \/ tpe.src_w <= 0 \/ tpe.src_h <= 0
              \/ tpe.src_x + tpe.src_w > tex.width \/ tpe.src_y + tpe.src_h > tex.height
           THEN None
           ELSE LET c == crop(tex, tpe.src_x, tpe.src_y,
                              tpe.src_x + tpe.src_w, tpe.src_y + tpe.src_h)
                IN  IF sprite_w > 0 /\ sprite_h > 0
                    THEN Some(paste_all(Image_new(sprite_w, sprite_h, 0), c,
                                        tpe.tgt_x, tpe.tgt_y))
                    ELSE Some(c)

\* range(a, b, step) for a positive step
range_step(a, b, step) ==
  [k \in 1..(IF b > a THEN (b - a + step - 1) \div step ELSE 0) |-> a + (k - 1) * step]

RECURSIVE paste_each(_, _, _)
paste_each(img, src, at) ==
  IF at = << >> THEN img
  ELSE paste_each(paste(img, src, Head(at)[1], Head(at)[2]), src, Tail(at))

\* The body of the loop of _draw_backgrounds for a slot that is drawn.
draw_background(rr, img, bg_def) ==
  LET bg_img == rr.tileset_cache[bg_def.bg_index]
      bw == bg_img.width
      bh == bg_img.height
  IN  IF bg_def.stretch
      THEN paste(img, resize_bilinear(bg_img, img.width, img.height), 0, 0)
      ELSE IF bg_def.tile_h \/ bg_def.tile_v
      THEN IF bw > 0 /\ bh > 0
           THEN LET ys == range_step(bg_def.y,
                                     IF bg_def.tile_v THEN img.height ELSE bg_def.y + bh, bh)
                    xs == range_step(bg_def.x,
                                     IF bg_def.tile_h THEN img.width ELSE bg_def.x + bw, bw)
                IN  paste_each(img, bg_img,
                               [k \in 1..(Len(ys) * Len(xs)) |->
                                  << xs[((k - 1) % Len(xs)) + 1],
                                     ys[((k - 1) \div Len(xs)) + 1] >>])
           ELSE img
      ELSE paste(img, bg_img, bg_def.x, bg_def.y)

\* The slots of a pass that draws the slots of both layers.
bg_drawn_in_both(rr, bg_def, foreground) ==
  /\ bg_def.visible /\ bg_def.bg_index >= 0
  /\ bg_def.bg_index \in DOMAIN rr.tileset_cache

\* The slots _draw_backgrounds draws in one pass.
bg_drawn(rr, bg_def, foreground) ==
  /\ bg_def.visible /\ bg_def.foreground = foreground /\ bg_def.bg_index >= 0
  /\ bg_def.bg_index \in DOMAIN rr.tileset_cache

\* _draw_backgrounds over the slots (position, bg_def) of the room; every
\* slot drawn is noted in the list of what was painted.
RECURSIVE draw_backgrounds(_, _, _, _)
draw_backgrounds(rr, acc, slots, foreground) ==
  IF slots = << >> THEN acc
  ELSE draw_backgrounds(rr,
                        IF bg_drawn(rr, Head(slots).v, foreground)
                        THEN [acc EXCEPT
                                !.img = draw_background(rr, @, Head(slots).v),
                                !.painted = Append(@, [kind |-> "bg",
                                                       slot |-> Head(slots).i,
                                                       foreground |-> foreground])]
                        ELSE acc,
                        Tail(slots), foreground)

\* The entries of draw_list for the tiles: ('tile', tile.depth, tile, i).
tile_items(room, o) ==
  LET ts == SelectSeq(enumerate(room.tiles),
                      LAMBDA p : o.depth_min <= p.v.depth /\ p.v.depth <= o.depth_max)
  IN  [k \in 1..Len(ts) |->
         [kind |-> "tile", depth |-> ts[k].v.depth, item |-> ts[k].v, orig_idx |-> ts[k].i]]

\* The entries for the instances: ('inst', obj.depth, (obj, inst), 100000 + i).
InstBase == 100000

\* The entries for the instances with their own index alone, as
\* ('inst', obj.depth, (obj, inst), i).
inst_items_unshifted(rr, room, o) ==
  LET shown(p) ==
        /\ p.v.obj_idx \in DOMAIN rr.ext.object_map
        /\ rr.ext.object_map[p.v.obj_idx].visible \/ o.show_hidden
        /\ o.depth_min <= rr.ext.object_map[p.v.obj_idx].depth
        /\ rr.ext.object_map[p.v.obj_idx].depth <= o.depth_max
      is == SelectSeq(enumerate(room.instances), shown)
  IN  [k \in 1..Len(is) |->
         [kind |-> "inst", depth |-> rr.ext.object_map[is[k].v.obj_idx].depth,
          item |-> << rr.ext.object_map[is[k].v.obj_idx], is[k].v >>,
          orig_idx |-> is[k].i]]

inst_items(rr, room, o) ==
  LET shown(p) ==
        /\ p.v.obj_idx \in DOMAIN rr.ext.object_map
        /\ rr.ext.object_map[p.v.obj_idx].visible \/ o.show_hidden
        /\ o.depth_min <= rr.ext.object_map[p.v.obj_idx].depth
        /\ rr.ext.object_map[p.v.obj_idx].depth <= o.depth_max
      is == SelectSeq(enumerate(room.instances), shown)
  IN  [k \in 1..Len(is) |->
         [kind |-> "inst", depth |-> rr.ext.object_map[is[k].v.obj_idx].depth,
          item |-> << rr.ext.object_map[is[k].v.obj_idx], is[k].v >>,
          orig_idx |-> InstBase + is[k].i]]

\* A sort that puts the lower depth first.
draw_before_ascending(a, b) ==
  a.depth < b.depth \/ (a.depth = b.depth /\ a.orig_idx < b.orig_idx)

\* draw_list.sort(key=lambda x: (-x[1], x[3])): a before b.
draw_before(a, b) ==
  a.depth > b.depth \/ (a.depth = b.depth /\ a.orig_idx < b.orig_idx)

draw_list(rr, room, o) ==
  sorted((IF o.show_tiles THEN tile_items(room, o) ELSE << >>)
         \o (IF o.show_inst THEN inst_items(rr, room, o) ELSE << >>),
         draw_before)

\* The body of the paint loop for a tile.  int() of an infinity or of a NaN
\* raises, outside every try.
paint_tile(rr, texs, acc, it, o) ==
  LET tile == it.item
      final_w == abs_mul_floor(tile.scale_x, tile.width)
      final_h == abs_mul_floor(tile.scale_y, tile.height)
      dx == IF f32_neg(tile.scale_x)
            THEN int_minus(tile.x, tile.scale_x, tile.width) ELSE tile.x
      dy == IF f32_neg(tile.scale_y)
            THEN int_minus(tile.y, tile.scale_y, tile.height) ELSE tile.y
      mark(kind) == [kind |-> kind, depth |-> it.depth, orig_idx |-> it.orig_idx]
      sized(v_img) == IF final_w # v_img.width \/ final_h # v_img.height
                      THEN resize_nearest(v_img, final_w, final_h) ELSE v_img
      flipped_v(h_img) ==
        sized(IF f32_neg(tile.scale_y) THEN flip_top_bottom(h_img) ELSE h_img)
      flipped_h(img) ==
        flipped_v(IF f32_neg(tile.scale_x) THEN flip_left_right(img) ELSE img)
      drawn(got) ==
        IF got = None THEN acc
        ELSE IF ~f32_finite(tile.scale_x) \/ ~f32_finite(tile.scale_y)
        THEN [acc EXCEPT !.raised = TRUE]
        ELSE IF final_w <= 0 \/ final_h <= 0 THEN acc
        ELSE [acc EXCEPT
                !.img = paste(@, flipped_h(got[1]), dx, dy),
                !.tile_rects =
                   Append(@, [rect |-> << dx, dy, dx + final_w, dy + final_h >>,
                              tile |-> tile, orig_idx |-> it.orig_idx]),
                !.outline =
                   @ \o (IF o.highlight = Some(it.orig_idx)
                         THEN << << dx, dy, dx + final_w - 1, dy + final_h - 1 >> >>
                         ELSE << >>),
                !.painted =
                   @ \o << mark("tile") >>
                     \o (IF o.highlight = Some(it.orig_idx)
                         THEN << mark("outline") >> ELSE << >>)]
  IN  drawn(get_tile_image(rr, texs, tile))

\* The same, failing on an object whose sprite is missing or has no frames.
paint_inst_strict(rr, texs, acc, it) ==
  LET obj  == it.item[1]
      inst == it.item[2]
  IN  IF obj.sprite_index < 0 THEN acc
      ELSE IF obj.sprite_index \notin DOMAIN rr.ext.sprite_map THEN [acc EXCEPT !.raised = TRUE]
      ELSE LET spr == rr.ext.sprite_map[obj.sprite_index]
           IN  IF spr.frames = << >> THEN [acc EXCEPT !.raised = TRUE]
               ELSE LET frame == get_sprite_frame(texs, spr.frames[1], spr.width, spr.height)
                    IN  IF frame = None THEN acc
                        ELSE [acc EXCEPT
                                !.img = paste(@, frame[1], inst.x - spr.origin_x,
                                              inst.y - spr.origin_y),
                                !.painted = Append(@, [kind |-> "inst", depth |-> it.depth,
                                                       orig_idx |-> it.orig_idx])]

\* The body of the paint loop for an instance.
paint_inst(rr, texs, acc, it) ==
  LET obj  == it.item[1]
      inst == it.item[2]
  IN  IF obj.sprite_index < 0 \/ obj.sprite_index \notin DOMAIN rr.ext.sprite_map THEN acc
      ELSE LET spr == rr.ext.sprite_map[obj.sprite_index]
           IN  IF spr.frames = << >> THEN acc
               ELSE LET frame == get_sprite_frame(texs, spr.frames[1], spr.width, spr.height)
                    IN  IF frame = None THEN acc
                        ELSE [acc EXCEPT
                                !.img = paste(@, frame[1], inst.x - spr.origin_x,
                                              inst.y - spr.origin_y),
                                !.painted = Append(@, [kind |-> "inst", depth |-> it.depth,
                                                       orig_idx |-> it.orig_idx])]

RECURSIVE paint_all(_, _, _, _, _)
paint_all(rr, texs, acc, items, o) ==
  IF items = << >> \/ acc.raised THEN acc
  ELSE paint_all(rr, texs,
                 IF Head(items).kind = "tile"
                 THEN paint_tile(rr, texs, acc, Head(items), o)
                 ELSE paint_inst(rr, texs, acc, Head(items)),
                 Tail(items), o)

\* A key that leaves the depth range out.
cache_key_coarse(room, o) ==
  << room.index, o.show_bg, o.show_tiles, o.show_inst, o.show_hidden, 0, 0, o.highlight >>

\* cache_key = (room.index, the toggles, the depth range, highlight_tile_idx)
cache_key(room, o) ==
  << room.index, o.show_bg, o.show_tiles, o.show_inst, o.show_hidden,
     o.depth_min, o.depth_max, o.highlight >>

\* The room image with the rectangles ImageDraw drew on it: the outer
\* outline of each highlighted tile.
outlined(img, outline) ==
  [width |-> img.width, height |-> img.height, px |-> img.px, outline |-> outline]

\* render_room storing every render, the highlighted ones too.
render_room_storing_all(rr, texs, room, o) ==
  IF room.width <= 0 \/ room.height <= 0
  THEN [raised |-> FALSE, img |-> None, tile_rects |-> << >>, painted |-> << >>,
        room_cache |-> rr.room_cache]
  ELSE IF cache_key(room, o) \in DOMAIN rr.room_cache
  THEN [raised |-> FALSE, img |-> Some(rr.room_cache[cache_key(room, o)].img),
        tile_rects |-> rr.room_cache[cache_key(room, o)].tile_rects,
        painted |-> << >>, room_cache |-> rr.room_cache]
  ELSE LET base == Image_new(room.width, room.height, room_colour(room.color))
           blank == [img |-> base, tile_rects |-> << >>, painted |-> << >>,
                     outline |-> << >>, raised |-> FALSE]
           back == IF o.show_bg
                   THEN draw_backgrounds(rr, blank, enumerate(room.bg_defs), FALSE)
                   ELSE blank
           cached(final, tile_rects, painted) ==
             [raised |-> FALSE, img |-> Some(final), tile_rects |-> tile_rects,
              painted |-> painted,
              room_cache |->
                [k \in DOMAIN rr.room_cache \cup {cache_key(room, o)} |->
                   IF k = cache_key(room, o)
                   THEN [img |-> final, tile_rects |-> tile_rects]
                   ELSE rr.room_cache[k]]]
           finish(acc) ==
             IF acc.raised
             THEN [raised |-> TRUE, img |-> None, tile_rects |-> << >>,
                   painted |-> acc.painted, room_cache |-> rr.room_cache]
             ELSE LET front == IF o.show_bg
                               THEN draw_backgrounds(rr, acc, enumerate(room.bg_defs), TRUE)
                               ELSE acc
                  IN  cached(outlined(front.img, front.outline),
                             front.tile_rects, front.painted)
       IN  finish(paint_all(rr, texs, back, draw_list(rr, room, o), o))

\* render_room: what it returns, what it painted, and the cache afterwards.
render_room(rr, texs, room, o) ==
  IF room.width <= 0 \/ room.height <= 0
  THEN [raised |-> FALSE, img |-> None, tile_rects |-> << >>, painted |-> << >>,
        room_cache |-> rr.room_cache]
  ELSE IF cache_key(room, o) \in DOMAIN rr.room_cache
  THEN [raised |-> FALSE, img |-> Some(rr.room_cache[cache_key(room, o)].img),
        tile_rects |-> rr.room_cache[cache_key(room, o)].tile_rects,
        painted |-> << >>, room_cache |-> rr.room_cache]
  ELSE LET base == Image_new(room.width, room.height, room_colour(room.color))
           blank == [img |-> base, tile_rects |-> << >>, painted |-> << >>,
                     outline |-> << >>, raised |-> FALSE]
           back == IF o.show_bg
                   THEN draw_backgrounds(rr, blank, enumerate(room.bg_defs), FALSE)
                   ELSE blank
           cached(final, tile_rects, painted) ==
             [raised |-> FALSE, img |-> Some(final), tile_rects |-> tile_rects,
              painted |-> painted,
              room_cache |->
                IF o.highlight = None
                THEN [k \in DOMAIN rr.room_cache \cup {cache_key(room, o)} |->
                        IF k = cache_key(room, o)
                        THEN [img |-> final, tile_rects |-> tile_rects]
                        ELSE rr.room_cache[k]]
                ELSE rr.room_cache]
           finish(acc) ==
             IF acc.raised
             THEN [raised |-> TRUE, img |-> None, tile_rects |-> << >>,
                   painted |-> acc.painted, room_cache |-> rr.room_cache]
             ELSE LET front == IF o.show_bg
                               THEN draw_backgrounds(rr, acc, enumerate(room.bg_defs), TRUE)
                               ELSE acc
                  IN  cached(outlined(front.img, front.outline),
                             front.tile_rects, front.painted)
       IN  finish(paint_all(rr, texs, back, draw_list(rr, room, o), o))

(***************************************************************************)
(* App._populate_tree.  A node is the values its label is formatted from   *)
(* and its values tuple; the children of a room are its background slots,  *)
(* its tiles ordered by (y, x) and its instances.                          *)
(***************************************************************************)
TreeMaxChildren == 100

\* self.ext.backgrounds[bg_index].name, the name shown for the background of
\* a background slot ("if bg.bg_index < len(...)", below "bg_index >= 0") and
\* of a tile ("if 0 <= tile.bg_index < len(...)").
background_label(e, bg_index, prefix) ==
  IF 0 <= bg_index /\ bg_index < Len(e.backgrounds)
  THEN e.backgrounds[bg_index + 1].name
  ELSE prefix \o str(bg_index)

room_bg_nodes(e, r) ==
  LET shown == SelectSeq(enumerate(r.bg_defs), LAMBDA p : p.v.bg_index >= 0)
  IN  [k \in 1..Len(shown) |->
         [text |-> [visible |-> shown[k].v.visible, slot |-> shown[k].i,
                    foreground |-> shown[k].v.foreground,
                    bg_name |-> background_label(e, shown[k].v.bg_index, Prefix("bg")),
                    x |-> shown[k].v.x, y |-> shown[k].v.y],
          values |-> << "room_bg", r.index, shown[k].i, shown[k].v.bg_index >>]]

room_tile_nodes(e, r) ==
  LET sorted_tiles ==
        sorted(enumerate(r.tiles),
                LAMBDA a, b : a.v.y < b.v.y \/ (a.v.y = b.v.y /\ a.v.x < b.v.x))
      first == SubSeq(sorted_tiles, 1, Min(Len(sorted_tiles), TreeMaxChildren))
  IN  [k \in 1..Len(first) |->
         [text |-> [inst_id |-> first[k].v.inst_id, x |-> first[k].v.x,
                    y |-> first[k].v.y,
                    bg_name |-> background_label(e, first[k].v.bg_index,
                                                 << 116, 105, 108, 101, 115, 101, 116, 95 >>),
                    flip_h |-> f32_neg(first[k].v.scale_x),
                    flip_v |-> f32_neg(first[k].v.scale_y)],
          values |-> << "room_tile", r.index, first[k].i >>]]

room_inst_nodes(e, r) ==
  LET first == SubSeq(r.instances, 1, Min(Len(r.instances), TreeMaxChildren))
  IN  [k \in 1..Len(first) |->
         [text |-> [x |-> first[k].x, y |-> first[k].y,
                    obj_name |-> IF first[k].obj_idx \in DOMAIN e.object_map
                                 THEN e.object_map[first[k].obj_idx].name
                                 ELSE << 111, 98, 106, 95 >> \o str(first[k].obj_idx),
                    hidden |-> /\ first[k].obj_idx \in DOMAIN e.object_map
                               /\ ~e.object_map[first[k].obj_idx].visible],
          values |-> << "room_inst", r.index, k - 1 >>]]

\* The nodes of one flat category: a name and the index of the record.
named_nodes(kind, recs) ==
  [k \in 1..Len(recs) |-> [text |-> recs[k].name, values |-> << kind, recs[k].index >>]]

sound_nodes(e) ==
  [k \in 1..Len(e.sounds) |->
     [text |-> [name |-> e.sounds[k].name,
                has_audio |-> e.sounds[k].audio_id \in DOMAIN e.audio],
      values |-> << "sound", e.sounds[k].index >>]]

object_nodes(e) ==
  [k \in 1..Len(e.objects) |->
     [text |-> [name |-> e.objects[k].name,
                spr_name |-> IF /\ e.objects[k].sprite_index >= 0
                                /\ e.objects[k].sprite_index \in DOMAIN e.sprite_map
                             THEN Some(e.sprite_map[e.objects[k].sprite_index].name)
                             ELSE None],
      values |-> << "object", e.objects[k].index >>]]

room_nodes(e) ==
  [k \in 1..Len(e.rooms) |->
     [text |-> [name |-> e.rooms[k].name, width |-> e.rooms[k].width,
                height |-> e.rooms[k].height],
      values |-> << "room", e.rooms[k].index >>,
      bgs |-> room_bg_nodes(e, e.rooms[k]),
      tiles |-> room_tile_nodes(e, e.rooms[k]),
      insts |-> room_inst_nodes(e, e.rooms[k])]]

texture_nodes(e, texs) ==
  [k \in 1..Len(e.textures) |->
     [text |-> IF (k - 1) \in DOMAIN texs
               THEN Some(<< texs[k - 1].width, texs[k - 1].height >>) ELSE None,
      values |-> << "texture", k - 1 >>]]

\* sorted(self.dw.chunks.items(), key=lambda x: x[1].offset)
chunk_nodes(cs) ==
  LET sorted_chunks == sorted(cs.map, LAMBDA a, b : a.offset < b.offset)
  IN  [k \in 1..Len(sorted_chunks) |->
         [text |-> sorted_chunks[k],
          values |-> << "chunk", cs.keys[IndexOf(cs.map, sorted_chunks[k])] >>]]

populate_tree(d, e, texs) ==
  [info |-> IF e.info = None THEN None
            ELSE IF e.info[1].name = << >> THEN Some(<< 71, 97, 109, 101 >>)
            ELSE Some(e.info[1].name),
   sprites |-> named_nodes("sprite", e.sprites),
   sounds |-> sound_nodes(e),
   objects |-> object_nodes(e),
   rooms |-> room_nodes(e),
   textures |-> texture_nodes(e, texs),
   backgrounds |-> named_nodes("background", e.backgrounds),
   fonts |-> named_nodes("font", e.fonts),
   paths |-> named_nodes("path", e.paths),
   scripts |-> named_nodes("script", e.scripts),
   shaders |-> named_nodes("shader", e.shaders),
   timelines |-> named_nodes("timeline", e.timelines),
   extensions |-> named_nodes("extension", e.extensions),
   chunks |-> chunk_nodes(d.chunks)]

(***************************************************************************)
(* App.open_file.  The event loop runs (root.update) in the progress       *)
(* callback before each step of extract_all, so a load is one action for   *)
(* the scan and one action for each step; the last step goes on through    *)
(* _load_textures, the renderer and _populate_tree.                        *)
(***************************************************************************)
\* DataWin(path) and GameExtractor(self.dw) for the file bytes b.
OpenBegin(b) ==
  /\ loadStep = 0
  /\ loads' = loads + 1
  /\ data' = b
  /\ chunks' = _parse(b).chunks
  /\ pos' = _parse(b).pos
  /\ IF _parse(b).error = "none"
     THEN /\ parsePc' = "done"
          /\ dw' = Some([data |-> b, chunks |-> _parse(b).chunks])
          /\ ext' = Some(GameExtractor)
          /\ loadStep' = 1
          /\ UNCHANGED lastError
     ELSE /\ parsePc' = _parse(b).error
          /\ lastError' = _parse(b).error
          /\ UNCHANGED << dw, ext, loadStep >>
  /\ UNCHANGED << textures, renderer, tree, lastRender, preview, current_room, rendering,
                  nameVars, layerVars >>

\* cb(...); fn() for the next step, and the rest of open_file after the
\* last one.
ExtractStep ==
  /\ loadStep \in 1..Len(Steps)
  /\ LET r == run_step(Steps[loadStep], dw[1].data, dw[1].chunks, ext[1])
     IN  /\ ext' = Some(r.ext)
         /\ IF r.raised
            THEN /\ lastError' = "struct_error"
                 /\ loadStep' = 0
                 /\ UNCHANGED << textures, renderer, tree >>
            ELSE IF loadStep < Len(Steps)
            THEN /\ loadStep' = loadStep + 1
                 /\ UNCHANGED << textures, renderer, tree, lastError >>
            ELSE /\ textures' = load_textures(r.ext)
                 /\ renderer' = Some(RoomRenderer(r.ext, load_textures(r.ext)))
                 /\ tree' = Some(populate_tree(dw[1], r.ext, load_textures(r.ext)))
                 /\ lastError' = "none"
                 /\ loadStep' = 0
  /\ UNCHANGED << scanVars, nameVars, layerVars, dw, loads, lastRender, preview, current_room, rendering >>

(***************************************************************************)
(* Decoding one archive: open_file once, on archives of one chunk whose    *)
(* pointer table lies inside the buffer and whose elements vary.           *)
(***************************************************************************)
ObjectArchives ==
  { AdjustEnd(Header \o ObjectSection(8, slots, sel), adj) :
      slots \in SeqsUpTo(SlotKinds, MaxSlots), sel \in NameSels, adj \in {0, 1} }

BackgroundArchives ==
  { AdjustEnd(Header \o BackgroundSection(8, slots, sel), adj) :
      slots \in SeqsUpTo(SlotKinds, MaxSlotsSmall), sel \in {"zero", "good"}, adj \in {0, 1} }

SpriteArchives ==
  { AdjustEnd(Header \o SpriteSection(8, slots, sel, fc), adj) :
      slots \in SeqsUpTo(SlotKinds, MaxSlotsSmall), sel \in {"zero", "good"},
      fc \in {0, 1, 2, SpriteMaxFrames}, adj \in {0 - 4, 0 - 3, 0} }

RoomArchives ==
  { AdjustEnd(Header \o RoomSection(8, slots, "good", nb, nt, ni), adj) :
      slots \in SeqsUpTo(SlotKinds, MaxSlotsSmall),
      nb \in {0, 1, RoomMaxBgs + 1}, nt \in {0, 1}, ni \in {0, 2}, adj \in {0 - 4, 0} }

OtherArchives ==
  { AdjustEnd(Header \o sec, adj) :
      sec \in { SoundSection(8, << "rec", "zero" >>, sel) : sel \in NameSels }
         \cup { FontSection(8, << "rec", "zero" >>, sel) : sel \in NameSels }
         \cup { SmallSection(t, 8, << "zero", "rec" >>, sel, 4) :
                  t \in {ChunkOf("paths"), ChunkOf("shaders"), ChunkOf("scripts"),
                         ChunkOf("extensions"), ChunkOf("timelines")},
                  sel \in NameSels },
      adj \in {0, 1} }

\* A texture chunk alone: one or two image files of 2 x 1 pixels, or a file
\* whose signature is damaged, the last file ending with the buffer or one
\* byte before its end.
TextureFiles ==
  LET file == PngBytes(2, 1, << 1, 2 >>)
  IN  { << file >>, << file, file >>, << << 0 >> \o Tail(file) >>,
        << << 0 >> \o Tail(file), file >> }

\* A texture chunk of three slots: a file of the colours 1 and 2, the
\* pointer zero or far outside, a file of the colours 3 and 4; one byte
\* follows the last file.
TextureGapArchive(ptr) ==
  LET first  == PngBytes(2, 1, << 1, 2 >>)
      second == PngBytes(2, 1, << 3, 4 >>)
      E      == PreBase(8, 3)
  IN  Header
      \o Flatten(<< TXTR, 32 + Len(first) + Len(second), 3, E, ptr, E + 8 >>)
      \o Flatten(<< 0, E + 16, 0, E + 16 + Len(first) >>)
      \o first \o second \o Zeros(1)

TextureArchives ==
  { AdjustEnd(Header \o TextureSection(8, files), adj) :
      files \in TextureFiles, adj \in {0, 1} }
  \cup { TextureGapArchive(0), TextureGapArchive(FarPtr) }

DecodeArchives ==
  ObjectArchives \cup BackgroundArchives \cup SpriteArchives \cup RoomArchives
  \cup OtherArchives \cup TextureArchives

InitDecode ==
  /\ data = << >> /\ pos = 0 /\ chunks = EmptyDict /\ parsePc = "magic"
  /\ NameInit
  /\ AppInit

OpenDecode == loads = 0 /\ \E b \in DecodeArchives : OpenBegin(b)

NextDecode == OpenDecode \/ ExtractStep

SpecDecode == InitDecode /\ [][NextDecode]_vars

(***************************************************************************)
(* The application: up to MaxLoads loads, of whole archives (a texture     *)
(* page, backgrounds, objects, a sprite and a room that refers to them),   *)
(* of buffers that do not start with the container tag, and of archives    *)
(* whose last chunk declares more bytes than the buffer holds.             *)
(***************************************************************************)
MaxLoads == 2

\* A 4 x 4 page whose pixel at (x, y) has the colour 1 + x + 4 * y.
PageFile == PngBytes(4, 4, [k \in 1..16 |-> k])

\* texture page | backgrounds | objects | one sprite | one room with one
\* background slot, one tile and one instance.
WholeArchive(bgSlots, objSlots, slotBg, tileBg, objIdx) ==
  LET t == Header \o TextureSection(8, << PageFile >>)
      b == t \o BackgroundSection(Len(t), bgSlots, "zero")
      o == b \o ObjectSection(Len(b), objSlots, "zero")
      p == o \o SpriteSection(Len(o), << "rec" >>, "good", 1)
  IN  p \o RoomOf(Len(p), "good", 4, 4,
                  << BgWords(1, 0, slotBg, 0, 0) >>,
                  << TileWords(1, 1, tileBg, 0, 0, 2, 2, 7, 9, One32, One32) >>,
                  << InstWords(2, 2, objIdx, 77) >>)

\* The indices the room refers to: of the background of its slot, of the
\* background of its tile, of the object of its instance.
RoomRefs == { << 0 - 1, 0, 0 >>, << 0, 0, 0 >>, << 1, 1, 1 >> }

WholeArchives ==
  { WholeArchive(bgSlots, objSlots, refs[1], refs[2], refs[3]) :
      bgSlots \in {<< "rec" >>, << "zero", "rec" >>, << "zero", "rec", "rec" >>},
      objSlots \in {<< "rec" >>, << "zero", "rec" >>},
      refs \in RoomRefs }

\* The buffer with its first four bytes replaced by those of the word w.
WithMagic(buf, w) == pack32(w) \o SubSeq(buf, 5, Len(buf))

BadMagicBuffers ==
  { WithMagic(WholeArchive(<< "rec" >>, << "rec" >>, 0, 0, 0), BADM),
    WithMagic(WholeArchive(<< "rec" >>, << "rec" >>, 0, 0, 0), 0),
    pack32(BADM),
    << 70, 79 >> }

\* The header of a chunk that declares size bytes, and the count word of
\* its table: all the buffer holds of it.
CutChunk(tag, size, count) == Flatten(<< tag, size, count >>)

TruncatedArchives ==
  { Header \o FontSection(8, << "rec" >>, "good") \o CutChunk(SPRT, 1000, 1),
    Header \o FontSection(8, << "rec" >>, "good") \o CutChunk(SPRT, 1000, 0),
    Header \o SpriteSection(8, << "rec" >>, "good", 1) \o CutChunk(OBJT, 1000, 2),
    Header \o ObjectSection(8, << "rec" >>, "good") \o CutChunk(ROOM, 1000, 1) }

AppArchives == WholeArchives \cup BadMagicBuffers \cup TruncatedArchives

OpenFile == loads < MaxLoads /\ \E b \in AppArchives : OpenBegin(b)

NextApp == OpenFile \/ ExtractStep

SpecApp == InitDecode /\ [][NextApp]_vars

(***************************************************************************)
(* Rendering: one load of an archive whose room holds MaxTiles tiles of    *)
(* one pixel each, of different colours, and one instance, or elements     *)
(* that name nothing drawable, background slots of both layers, or a tile  *)
(* with a negative scale; then calls of render_room and clear_cache in any *)
(* order.                                                                  *)
(***************************************************************************)
\* The settings of the view: its toggles, its depth range and the selected tile.
RenderOptions ==
  { [show_bg |-> TRUE, show_tiles |-> TRUE, show_inst |-> si, show_hidden |-> FALSE,
     depth_min |-> range[1], depth_max |-> range[2], highlight |-> hl] :
      si \in BOOLEAN,
      range \in {<< 0 - 999999999, 999999999 >>, << 50, 100 >>},
      hl \in {None, Some(0)} }

\* renderer.render_room(room, ...) for a room of the extractor, as
\* App._refresh_room calls it.
RenderRoom ==
  /\ loadStep = 0 /\ renderer # None /\ ext # None
  /\ \E r \in 1..Len(ext[1].rooms), o \in RenderOptions :
       LET shown(res) ==
             /\ renderer' = Some([renderer[1] EXCEPT !.room_cache = res.room_cache])
             /\ lastRender' = Some([room |-> ext[1].rooms[r], opts |-> o,
                                    raised |-> res.raised, img |-> res.img,
                                    tile_rects |-> res.tile_rects,
                                    painted |-> res.painted])
       IN  shown(render_room(renderer[1], textures, ext[1].rooms[r], o))
  /\ UNCHANGED << scanVars, nameVars, layerVars, dw, ext, textures, tree, loadStep, loads, lastError,
                  preview, current_room, rendering >>

\* renderer.clear_cache()
ClearCache ==
  /\ loadStep = 0 /\ renderer # None
  /\ renderer' = Some([renderer[1] EXCEPT !.room_cache = << >>])
  /\ UNCHANGED << scanVars, nameVars, layerVars, dw, ext, textures, tree, loadStep, loads,
                  lastError, lastRender, preview, current_room, rendering >>

MaxTiles == 3

\* The depths of the tiles and the places they are pasted at.
TileDepths == {5, 100}
TilePlaces == {<< 1, 1 >>, << 2, 1 >>}

\* Tile k shows the pixel (k - 1, 0) of the background, of colour k.
RenderTiles(depths, places) ==
  [k \in 1..Len(depths) |->
     TileWords(places[k][1], places[k][2], 0, k - 1, 0, 1, 1, depths[k], k,
               One32, One32)]

\* texture page | one background over the whole page | one object (of depth
\* 5) | its sprite | the room.
RenderArchive(depths, places) ==
  LET t == Header \o TextureSection(8, << PageFile >>)
      b == t \o Section(BGND, Len(t), << "rec" >>, NameArea \o TpagBytes(0, 0, 4, 4, 0),
                        Flatten(<< 0, 0, 0, 0, PreBase(Len(t), 1) + 4 >>), << >>)
      o == b \o ObjectSection(Len(b), << "rec" >>, "zero")
      p == o \o SpriteSection(Len(o), << "rec" >>, "good", 1)
  IN  p \o RoomOf(Len(p), "good", 4, 4, << BgWords(1, 0, 0, 0, 0) >>,
                  RenderTiles(depths, places), << InstWords(2, 2, 0, 77) >>)

RenderArchives ==
  { RenderArchive(depths, [k \in 1..Len(depths) |-> << 1, 1 >>]) :
      depths \in SeqsUpTo(TileDepths, MaxTiles) }
  \cup { RenderArchive(<< 100, 5 >>, places) : places \in [1..2 -> TilePlaces] }

\* The same archive with a room of one tile of 2 x 1 pixels, the first two
\* of the background, at (x, 1), whose scale is 1.0 or -1.0 in each axis.
FlipArchive(x, sx, sy) ==
  LET t == Header \o TextureSection(8, << PageFile >>)
      b == t \o Section(BGND, Len(t), << "rec" >>, NameArea \o TpagBytes(0, 0, 4, 4, 0),
                        Flatten(<< 0, 0, 0, 0, PreBase(Len(t), 1) + 4 >>), << >>)
      o == b \o ObjectSection(Len(b), << "rec" >>, "zero")
      p == o \o SpriteSection(Len(o), << "rec" >>, "good", 1)
  IN  p \o RoomOf(Len(p), "good", 4, 4, << BgWords(1, 0, 0, 0, 0) >>,
                  << TileWords(x, 1, 0, 0, 0, 2, 1, 5, 1, sx, sy) >>,
                  << InstWords(2, 2, 0, 77) >>)

FlipArchives ==
  { FlipArchive(x, sx, sy) : x \in {0, 2}, sx \in {One32, NegOne32}, sy \in {One32, NegOne32} }

\* The bytes of an atlas region with its target offset (11 fields and padding).
TpagOf(x, y, w, h, tx, ty, tex) ==
  Flatten16(<< x, y, w, h, tx, ty, w, h, w, h, tex, 0 >>)

\* A chunk whose records differ: the table points at the records, which
\* follow the pre area.
TableOf(tag, b0, pre, recs) ==
  LET n == Len(recs)
      R == PreBase(b0, n) + Len(pre)
  IN  Flatten(<< tag, 4 + 4 * n + Len(pre) + Len(Concat(recs)), n >>
              \o [k \in 1..n |-> R + Len(Concat(SubSeq(recs, 1, k - 1)))])
      \o pre \o Concat(recs)

\* The elements a room may hold that name nothing drawable: an instance of
\* an object that does not exist ("no_object"), of an object whose sprite
\* does not exist ("no_sprite") or has no frames ("no_frames"); a tile or a
\* background slot of a background that does not exist ("no_bg"), of one
\* whose region leaves the page ("no_crop"), and a tile whose source is
\* outside both the tileset image and the page ("outside").  The slots of a
\* background that exists are behind the room at its top ("good") and from
\* its third row on ("low"), in front of its last row ("front") and last
\* pixel ("corner"), or not visible ("hidden").
DanglingInst(kind) ==
  CASE kind = "good"      -> InstWords(2, 2, 0, 77)
    [] kind = "no_object" -> InstWords(1, 1, 7, 78)
    [] kind = "no_sprite" -> InstWords(1, 2, 2, 79)
    [] kind = "no_frames" -> InstWords(2, 1, 1, 80)

DanglingTile(kind, k) ==
  CASE kind = "good"    -> TileWords(k, 1, 0, k - 1, 0, 1, 1, 5, k, One32, One32)
    [] kind = "no_bg"   -> TileWords(k, 1, 3, 0, 0, 1, 1, 5, k, One32, One32)
    [] kind = "no_crop" -> TileWords(k, 1, 1, 0, 0, 1, 1, 5, k, One32, One32)
    [] kind = "outside" -> TileWords(k, 1, 0, 4, 4, 1, 1, 5, k, One32, One32)

DanglingBg(kind) ==
  CASE kind = "good"     -> BgWords(1, 0, 0, 0, 0)
    [] kind = "no_bg"    -> BgWords(1, 0, 3, 1, 1)
    [] kind = "no_crop"  -> BgWords(1, 1, 1, 1, 1)
    [] kind = "negative" -> BgWords(1, 1, 0 - 1, 1, 1)
    [] kind = "low"      -> BgWords(1, 0, 0, 0, 2)
    [] kind = "front"    -> BgWords(1, 1, 0, 0, 3)
    [] kind = "corner"   -> BgWords(1, 1, 0, 3, 3)
    [] kind = "hidden"   -> BgWords(0, 1, 0, 0, 0)

\* texture page | background 0 over the page and background 1 leaving it |
\* objects 0, 1, 2 of the sprites 0, 1, 9 | sprite 0 and sprite 1, which has
\* no frames | the room.
DanglingArchive(bgs, tiles, insts) ==
  LET t  == Header \o TextureSection(8, << PageFile >>)
      Bb == PreBase(Len(t), 2)
      b  == t \o TableOf(BGND, Len(t),
                         TpagOf(0, 0, 4, 4, 0, 0, 0) \o TpagOf(2, 2, 3, 3, 0, 0, 0),
                         << Flatten(<< 0, 0, 0, 0, Bb >>), Flatten(<< 0, 0, 0, 0, Bb + 24 >>) >>)
      o  == b \o TableOf(OBJT, Len(b), << >>,
                         [k \in 1..3 |->
                            Flatten(<< 0, << 0, 1, 9 >>[k], 1, 0, 5, 0, 0 - 1, 0 - 1 >>)])
      Bs == PreBase(Len(o), 2)
      p  == o \o TableOf(SPRT, Len(o), TpagOf(0, 0, 2, 2, 0, 0, 0),
                         [k \in 1..2 |->
                            Flatten(<< 0, 2, 2, 0, 0, 0, 0, 0, 0, 0, 0, 0,
                                       1, 1, 2 - k, Bs, Bs >>)])
  IN  p \o RoomOf(Len(p), "good", 4, 4,
                  [k \in 1..Len(bgs) |-> DanglingBg(bgs[k])],
                  [k \in 1..Len(tiles) |-> DanglingTile(tiles[k], k)],
                  [k \in 1..Len(insts) |-> DanglingInst(insts[k])])

DanglingArchives ==
  { DanglingArchive(<< "good" >>, << "good", "good" >>, insts) :
      insts \in { << "no_object", "good" >>, << "good", "no_sprite" >>,
                  << "no_frames", "good" >>,
                  << "no_object", "no_sprite", "good", "no_frames" >> } }
  \cup { DanglingArchive(<< "good" >>, tiles, << "good" >>) :
           tiles \in { << "no_bg", "good" >>, << "good", "no_crop" >>,
                       << "good", "outside", "good" >> } }
  \cup { DanglingArchive(bgs, << "good" >>, << "good" >>) :
           bgs \in { << "no_bg", "good" >>, << "good", "no_crop" >>,
                     << "negative", "good", "no_bg" >> } }
  \cup { DanglingArchive(<< "no_bg", "good", "no_crop" >>, << "no_crop", "good", "no_bg" >>,
                         << "no_frames", "good", "no_object" >>) }
  \cup { DanglingArchive(<< "front", "good", "hidden", "negative", "low", "corner" >>,
                         << "good", "good" >>, << "good" >>) }

OpenRender ==
  loads = 0 /\ \E b \in RenderArchives \cup DanglingArchives \cup FlipArchives : OpenBegin(b)

NextRender ==
  \/ OpenRender
  \/ ExtractStep
  \/ RenderRoom
  \/ ClearCache

SpecRender == InitDecode /\ [][NextRender]_vars

(***************************************************************************)
(* The previews of the elements of a room: a background slot shows the     *)
(* tileset image of its background, a tile its crop.  The archives hold a  *)
(* page of 4 x 4 pixels of 16 colours, backgrounds whose region varies,    *)
(* and a room with one background slot and tiles whose source varies.      *)
(***************************************************************************)
\* next((r for r in self.ext.rooms if r.index == room_idx), None)
room_of(e, room_idx) ==
  LET found == SelectSeq(e.rooms, LAMBDA r : r.index = room_idx)
  IN  IF found = << >> THEN None ELSE Some(found[1])

\* RoomRenderer.get_tileset
get_tileset(rr, bg_index) ==
  IF bg_index \in DOMAIN rr.tileset_cache THEN Some(rr.tileset_cache[bg_index]) ELSE None

\* App._show_room_bg: the image it sets, None when it shows none.
show_room_bg(e, rr, room_idx, bg_slot, bg_index) ==
  IF room_of(e, room_idx) = None THEN None
  ELSE IF bg_slot >= Len(room_of(e, room_idx)[1].bg_defs) THEN None
  ELSE IF rr # None /\ 0 <= bg_index /\ bg_index < Len(e.backgrounds)
  THEN get_tileset(rr[1], bg_index)
  ELSE None

\* App._show_room_tile: the crop of the tile, flipped as the tile is.
show_room_tile(e, rr, texs, room_idx, tile_idx) ==
  IF room_of(e, room_idx) = None THEN None
  ELSE IF tile_idx >= Len(room_of(e, room_idx)[1].tiles) THEN None
  ELSE IF rr = None THEN None
  ELSE LET tile == room_of(e, room_idx)[1].tiles[tile_idx + 1]
           flip_v(img) == IF f32_neg(tile.scale_y) THEN flip_top_bottom(img) ELSE img
           flip_h(img) == flip_v(IF f32_neg(tile.scale_x) THEN flip_left_right(img) ELSE img)
           shown(got) == IF got = None THEN None ELSE Some(flip_h(got[1]))
       IN  shown(get_tile_image(rr[1], texs, tile))

\* App._on_select on a background slot of a room and on a tile of a room.
ShowRoomBg ==
  /\ tree # None /\ ext # None
  /\ \E r \in 1..Len(tree[1].rooms) : \E k \in 1..Len(tree[1].rooms[r].bgs) :
       LET v == tree[1].rooms[r].bgs[k].values
       IN  preview' = Some([values |-> v,
                            img |-> show_room_bg(ext[1], renderer, v[2], v[3], v[4])])
  /\ UNCHANGED << scanVars, nameVars, layerVars, dw, ext, textures, renderer, tree, loadStep, loads,
                  lastError, lastRender, current_room, rendering >>

ShowRoomTile ==
  /\ tree # None /\ ext # None
  /\ \E r \in 1..Len(tree[1].rooms) : \E k \in 1..Len(tree[1].rooms[r].tiles) :
       LET v == tree[1].rooms[r].tiles[k].values
       IN  preview' = Some([values |-> v,
                            img |-> show_room_tile(ext[1], renderer, textures, v[2], v[3])])
  /\ UNCHANGED << scanVars, nameVars, layerVars, dw, ext, textures, renderer, tree, loadStep, loads,
                  lastError, lastRender, current_room, rendering >>

\* App._get_sprite_frames: the frames that could be reconstructed.  The
\* App's _get_sprite_frame is the renderer's, line for line.
get_sprite_frames(texs, spr) ==
  LET frame(k) == get_sprite_frame(texs, spr.frames[k], spr.width, spr.height)
      got == SelectSeq([k \in 1..Len(spr.frames) |-> frame(k)], LAMBDA f : f # None)
  IN  [k \in 1..Len(got) |-> got[k][1]]

\* App._show_sprite: the frames handed to the animation widget.
show_sprite(e, texs, idx) ==
  IF idx \notin DOMAIN e.sprite_map THEN << >>
  ELSE get_sprite_frames(texs, e.sprite_map[idx])

\* App._on_select on a sprite.
ShowSprite ==
  /\ tree # None /\ ext # None
  /\ \E k \in 1..Len(tree[1].sprites) :
       LET v == tree[1].sprites[k].values
           shown(frames) ==
             preview' = Some([values |-> v, frames |-> frames,
                              img |-> IF frames = << >> THEN None ELSE Some(frames[1])])
       IN  shown(show_sprite(ext[1], textures, v[2]))
  /\ UNCHANGED << scanVars, nameVars, layerVars, dw, ext, textures, renderer, tree, loadStep, loads,
                  lastError, lastRender, current_room, rendering >>

\* The regions of the backgrounds: inside the page, and past its right or
\* lower edge.
AtlasRegions ==
  { << 0, 0, 4, 4 >>, << 1, 1, 2, 2 >>, << 2, 2, 3, 3 >>, << 3, 0, 2, 1 >>, << 0, 3, 1, 2 >> }

\* The tiles of the room, all of background tileBg: (src_x, src_y, w, h).
AtlasTileSources ==
  << << 0, 0, 1, 1 >>, << 1, 1, 2, 2 >>, << 3, 3, 2, 2 >>, << 0 - 1, 0, 2, 1 >> >>

\* texture page | backgrounds with the region (or with none: hasRegion) on
\* page tex | the room.
AtlasArchive(bgSlots, region, tex, hasRegion, tileBg) ==
  LET t == Header \o TextureSection(8, << PageFile >>)
      B == PreBase(Len(t), Len(bgSlots))
      b == t \o Section(BGND, Len(t), bgSlots,
                        NameArea \o TpagOf(region[1], region[2], region[3], region[4],
                                           0, 0, tex),
                        Flatten(<< 0, 0, 0, 0, IF hasRegion THEN B + 4 ELSE 0 >>), << >>)
  IN  b \o RoomOf(Len(b), "good", 4, 4, << BgWords(1, 0, tileBg, 0, 0) >>,
                  [k \in 1..Len(AtlasTileSources) |->
                     TileWords(k - 1, 0, tileBg, AtlasTileSources[k][1],
                               AtlasTileSources[k][2], AtlasTileSources[k][3],
                               AtlasTileSources[k][4], 7, k, One32, One32)],
                  << >>)

AtlasArchives ==
  { AtlasArchive(<< "rec" >>, region, tex, TRUE, 0) : region \in AtlasRegions, tex \in {0, 1} }
  \cup { AtlasArchive(<< "rec" >>, << 0, 0, 4, 4 >>, 0, FALSE, 0) }
  \cup { AtlasArchive(slots, << 1, 1, 2, 2 >>, 0, TRUE, 1) :
            slots \in {<< "zero", "rec" >>, << "rec", "rec" >>} }

\* A page of w x h pixels of the colours 1, 2, ...
PageOf(w, h) == PngBytes(w, h, [k \in 1..(w * h) |-> k])

\* page | one sprite of the size given with two frames: the region with its
\* target on page tex, and the pixel (0, 0) of page 0.
FrameArchive(page, size, region, tgt, tex) ==
  LET t == Header \o TextureSection(8, << page >>)
      B == PreBase(Len(t), 1)
  IN  t \o Section(SPRT, Len(t), << "rec" >>,
                   NameArea
                   \o TpagOf(region[1], region[2], region[3], region[4], tgt[1], tgt[2], tex)
                   \o TpagOf(0, 0, 1, 1, 0, 0, 0),
                   Flatten(<< B, size[1], size[2], 0, 0, 0, 0, 0, 0, 0, 0, 0,
                              1, 1, 2, B + 4, B + 28 >>), << >>)

\* Small pages with regions inside and outside and targets that leave room
\* around the block or push it over the edge of the sprite; and a 10 x 10
\* region with target (5, 3) on a sprite of 20 x 20.
FrameArchives ==
  { FrameArchive(PageFile, size, region, tgt, 0) :
      size \in {<< 3, 3 >>, << 5, 4 >>, << 0, 3 >>},
      region \in {<< 1, 1, 2, 2 >>, << 3, 3, 2, 2 >>, << 2, 0, 2, 1 >>},
      tgt \in {<< 0, 0 >>, << 1, 1 >>, << 3, 2 >>} }
  \cup { FrameArchive(PageFile, << 3, 3 >>, << 1, 1, 2, 2 >>, << 1, 1 >>, 1),
         FrameArchive(PageOf(12, 11), << 20, 20 >>, << 1, 1, 10, 10 >>, << 5, 3 >>, 0) }

OpenAtlas == loads = 0 /\ \E b \in AtlasArchives \cup FrameArchives : OpenBegin(b)

NextAtlas == OpenAtlas \/ ExtractStep \/ ShowRoomBg \/ ShowRoomTile \/ ShowSprite

SpecAtlas == InitDecode /\ [][NextAtlas]_vars

(***************************************************************************)
(* Loading one archive after another: open_file up to MaxLoads times, and  *)
(* between the steps of the loads (the progress callback runs the event    *)
(* loop) and after them the room view: _show_room on a room of the tree    *)
(* and _refresh_room when a filter control changes.  The archives differ in    *)
(* the colours of the page, the region of the background and the room; one *)
(* has a truncated FONT chunk, whose decoder fails after the rooms, the    *)
(* backgrounds and the textures were decoded.                              *)
(***************************************************************************)
\* The settings of the filter controls while the archives are reloaded.
ReloadOptions ==
  { [show_bg |-> TRUE, show_tiles |-> st, show_inst |-> TRUE, show_hidden |-> FALSE,
     depth_min |-> 0 - 999999999, depth_max |-> 999999999, highlight |-> None] :
      st \in BOOLEAN }

\* App._show_room with App._refresh_room(fit = True) at its end.
ShowRoom ==
  /\ tree # None /\ ext # None /\ renderer # None
  /\ \E k \in 1..Len(tree[1].rooms), o \in ReloadOptions :
       LET v == tree[1].rooms[k].values
           shown(room, res) ==
             /\ current_room' = room
             /\ renderer' = Some([renderer[1] EXCEPT !.room_cache = res.room_cache])
             /\ lastRender' = Some([room |-> room[1], opts |-> o, raised |-> res.raised,
                                    img |-> res.img, tile_rects |-> res.tile_rects,
                                    painted |-> res.painted])
             /\ preview' = Some([values |-> v, img |-> res.img])
           found(room) ==
             IF room = None
             THEN /\ preview' = Some([values |-> v, img |-> None])
                  /\ UNCHANGED << current_room, renderer, lastRender >>
             ELSE shown(room, render_room([renderer[1] EXCEPT !.room_cache = << >>],
                                          textures, room[1], o))
       IN  found(room_of(ext[1], v[2]))
  /\ UNCHANGED << scanVars, nameVars, layerVars, dw, ext, textures, tree, loadStep, loads, lastError,
                  rendering >>

\* App._refresh_room: the current room under the settings of the controls.
RefreshRoom ==
  /\ current_room # None /\ renderer # None
  /\ \E o \in ReloadOptions :
       LET shown(res) ==
             /\ renderer' = Some([renderer[1] EXCEPT !.room_cache = res.room_cache])
             /\ lastRender' = Some([room |-> current_room[1], opts |-> o,
                                    raised |-> res.raised, img |-> res.img,
                                    tile_rects |-> res.tile_rects, painted |-> res.painted])
       IN  shown(render_room(renderer[1], textures, current_room[1], o))
  /\ UNCHANGED << scanVars, nameVars, layerVars, dw, ext, textures, tree, loadStep, loads, lastError,
                  preview, current_room, rendering >>

\* page of the colours c0 + 1 .. c0 + 16 | background 0 with the region |
\* a room of w x w with a slot and a tile of background 0.
ReloadArchive(c0, region, w) ==
  LET t == Header \o TextureSection(8, << PngBytes(4, 4, [k \in 1..16 |-> c0 + k]) >>)
      b == t \o TableOf(BGND, Len(t),
                        TpagOf(region[1], region[2], region[3], region[4], 0, 0, 0),
                        << Flatten(<< 0, 0, 0, 0, PreBase(Len(t), 1) >>) >>)
  IN  b \o RoomOf(Len(b), "good", w, w, << BgWords(1, 0, 0, 0, 0) >>,
                  << TileWords(1, 1, 0, 0, 0, 1, 1, 7, 1, One32, One32) >>, << >>)

ReloadArchives ==
  { ReloadArchive(0, << 0, 0, 4, 4 >>, 4),
    ReloadArchive(16, << 1, 1, 2, 2 >>, 3),
    ReloadArchive(32, << 2, 0, 2, 2 >>, 3) \o CutChunk(FONT, 1000, 1) }

OpenReload == loads < MaxLoads /\ \E b \in ReloadArchives : OpenBegin(b)

NextReload == OpenReload \/ ExtractStep \/ ShowRoom \/ RefreshRoom \/ ShowRoomBg

SpecReload == InitDecode /\ [][NextReload]_vars

(***************************************************************************)
(* render_room called by two callers at once.  The method takes no lock,   *)
(* so its steps are the cache check (lines 1067-1075), the compositing     *)
(* pass (1077-1180) and the insert with the return (1182-1186), and the    *)
(* steps of two calls interleave.                                          *)
(***************************************************************************)
RaceOptions == { o \in RenderOptions : o.show_inst /\ o.depth_min < 0 }

\* The size test and "if cache_key in self._room_cache: return ...".
RenderCheck(c) ==
  /\ loadStep = 0 /\ renderer # None /\ ext # None
  /\ rendering[c].pc = "idle"
  /\ \E r \in 1..Len(ext[1].rooms), o \in RaceOptions :
       LET room == ext[1].rooms[r]
           key  == cache_key(room, o)
       IN  IF room.width <= 0 \/ room.height <= 0 \/ key \in DOMAIN renderer[1].room_cache
           THEN /\ lastRender' = Some([room |-> room, opts |-> o, raised |-> FALSE,
                                       img |-> render_room(renderer[1], textures, room, o).img,
                                       tile_rects |->
                                         render_room(renderer[1], textures, room, o).tile_rects,
                                       painted |-> << >>])
                /\ UNCHANGED rendering
           ELSE /\ rendering' = [rendering EXCEPT ![c] =
                                   [pc |-> "compositing", room |-> room, opts |-> o]]
                /\ UNCHANGED lastRender
  /\ UNCHANGED << scanVars, nameVars, layerVars, dw, ext, textures, renderer, tree, loadStep, loads,
                  lastError, preview, current_room >>

\* The compositing pass: the image and the hit list of the call.
RenderComposite(c) ==
  /\ rendering[c].pc = "compositing" /\ renderer # None
  /\ LET done(res) ==
           rendering' = [rendering EXCEPT ![c] =
                           [pc |-> "insert", room |-> rendering[c].room,
                            opts |-> rendering[c].opts, raised |-> res.raised,
                            img |-> res.img, tile_rects |-> res.tile_rects,
                            painted |-> res.painted]]
     IN  done(render_room([renderer[1] EXCEPT !.room_cache = << >>], textures,
                          rendering[c].room, rendering[c].opts))
  /\ UNCHANGED << scanVars, nameVars, layerVars, dw, ext, textures, renderer, tree, loadStep, loads,
                  lastError, lastRender, preview, current_room >>

\* "if highlight_tile_idx is None: self._room_cache[cache_key] = ..." and
\* the return.
RenderInsert(c) ==
  /\ rendering[c].pc = "insert" /\ renderer # None
  /\ LET call == rendering[c]
         key  == cache_key(call.room, call.opts)
     IN  /\ renderer' =
              IF call.opts.highlight = None /\ ~call.raised
              THEN Some([renderer[1] EXCEPT !.room_cache =
                           [k \in DOMAIN renderer[1].room_cache \cup {key} |->
                              IF k = key
                              THEN [img |-> call.img[1], tile_rects |-> call.tile_rects]
                              ELSE renderer[1].room_cache[k]]])
              ELSE renderer
         /\ lastRender' = Some([room |-> call.room, opts |-> call.opts,
                                raised |-> call.raised, img |-> call.img,
                                tile_rects |-> call.tile_rects, painted |-> call.painted])
  /\ rendering' = [rendering EXCEPT ![c] = Idle]
  /\ UNCHANGED << scanVars, nameVars, layerVars, dw, ext, textures, tree, loadStep, loads, lastError,
                  preview, current_room >>

RaceArchives ==
  { RenderArchive(<< 100, 5 >>, places) : places \in {<< << 1, 1 >>, << 1, 1 >> >>,
                                                      << << 1, 1 >>, << 2, 1 >> >>} }

OpenRace == loads = 0 /\ \E b \in RaceArchives : OpenBegin(b)

NextRace ==
  \/ OpenRace
  \/ ExtractStep
  \/ \E c \in Callers : RenderCheck(c)
  \/ \E c \in Callers : RenderComposite(c)
  \/ \E c \in Callers : RenderInsert(c)

SpecRace == InitDecode /\ [][NextRace]_vars

(***************************************************************************)
(* Properties of the decoders, over SpecDecode.                            *)
(***************************************************************************)
\* The load has run through every step of extract_all and the rest of
\* open_file.
LoadComplete == loadStep = 0 /\ tree # None /\ lastError = "none"

\* A decoder raised and open_file reported it.
LoadAborted == parsePc = "done" /\ loadStep = 0 /\ lastError = "struct_error"

\* The count and the pointers of the table of the chunk tag of the archive.
TableOff(tag) == DictGet(chunks, tag).data_start
TableCount(tag) == u32(data, TableOff(tag))
TablePtr(tag, i) == ptr_at(data, TableOff(tag), i)

\* Every list of named records of the extractor, in one sequence.
NamedRecords(e) ==
  [k \in 1..Len(e.sprites) |-> [index |-> e.sprites[k].index, name |-> e.sprites[k].name]]
  \o [k \in 1..Len(e.sounds) |-> [index |-> e.sounds[k].index, name |-> e.sounds[k].name]]
  \o [k \in 1..Len(e.objects) |-> [index |-> e.objects[k].index, name |-> e.objects[k].name]]
  \o [k \in 1..Len(e.rooms) |-> [index |-> e.rooms[k].index, name |-> e.rooms[k].name]]
  \o [k \in 1..Len(e.backgrounds) |->
        [index |-> e.backgrounds[k].index, name |-> e.backgrounds[k].name]]
  \o [k \in 1..Len(e.fonts) |-> [index |-> e.fonts[k].index, name |-> e.fonts[k].name]]
  \o [k \in 1..Len(e.paths) |-> [index |-> e.paths[k].index, name |-> e.paths[k].name]]
  \o [k \in 1..Len(e.scripts) |-> [index |-> e.scripts[k].index, name |-> e.scripts[k].name]]
  \o [k \in 1..Len(e.shaders) |-> [index |-> e.shaders[k].index, name |-> e.shaders[k].name]]
  \o [k \in 1..Len(e.extensions) |->
        [index |-> e.extensions[k].index, name |-> e.extensions[k].name]]
  \o [k \in 1..Len(e.timelines) |->
        [index |-> e.timelines[k].index, name |-> e.timelines[k].name]]

\* C1: decoding a chunk completes without raising: an element that is bad
\* (zero pointer, or a record, name or sub-list that would read past the end
\* of the buffer) is skipped on its own.  Stated: no load of an archive that
\* the scan accepted ends with a decoder's error.
C1_DecodeNeverRaises == ~LoadAborted

\* C5: decoding a chunk of count n in which exactly k pointers are zero or
\* out of range (the 32-byte record of the pointer does not fit in the
\* buffer) yields exactly n - k records.  Stated for the object chunk of a
\* completed load.
C5_RecordsAreCountMinusSkipped ==
  (LoadComplete /\ DictHas(chunks, OBJT)) =>
     Len(ext[1].objects) =
       TableCount(OBJT)
       - Cardinality({i \in 0..(TableCount(OBJT) - 1) :
                        \/ TablePtr(OBJT, i) = 0
                        \/ TablePtr(OBJT, i) + 32 > Len(data)})

\* C6: after decoding, every record of every kind has a non-empty name.
C6_NamesNonEmpty ==
  ext # None =>
    \A k \in 1..Len(NamedRecords(ext[1])) : NamedRecords(ext[1])[k].name # << >>

(***************************************************************************)
(* Properties of the application, over SpecApp.                            *)
(***************************************************************************)
\* The buffer starts with the four bytes of the container tag.
StartsWithTag(b) == CanRead(b, 0, 4) /\ u32(b, 0) = FORM

\* C2: a load of a buffer whose leading four bytes are not the container tag
\* fails in the scan with the bad-magic error, indexes no chunk, and leaves
\* the data file, the extractor, the textures, the renderer and the tree as
\* they were.  A buffer of fewer than four bytes fails in the read of the
\* tag instead, with the same effect.
C2_BadMagicLeavesNoCatalog ==
  [][(loads' = loads + 1 /\ ~StartsWithTag(data')) =>
       /\ Len(data') >= 4 => parsePc' = "bad_magic"
       /\ parsePc' \in {"bad_magic", "struct_error"}
       /\ lastError' = parsePc'
       /\ chunks' = EmptyDict
       /\ UNCHANGED << dw, ext, textures, renderer, tree >>]_vars

\* A buffer with a wrong tag was opened after a complete load, whose
\* textures, renderer and tree are still there.
C2_Witness ==
  /\ loads = 2 /\ lastError = "bad_magic" /\ Len(data) > 4
  /\ chunks = EmptyDict
  /\ dw # None /\ dw[1].data # data
  /\ DOMAIN textures # {} /\ renderer # None /\ tree # None

HasIndex(recs, i) == \E k \in 1..Len(recs) : recs[k].index = i

\* The records of the list are those of the pointers of the table that are
\* not skipped, each under the position of its pointer.
IndexIsPosition(recs, tag, n) ==
  \A k \in 1..Len(recs) :
    /\ recs[k].index \in 0..(TableCount(tag) - 1)
    /\ ~skip_ptr(data, TablePtr(tag, recs[k].index), n)
    /\ Cardinality({j \in 0..(recs[k].index - 1) :
                      ~skip_ptr(data, TablePtr(tag, j), n)}) = k - 1

\* The name under which a reference to the record of index i is shown: that
\* of the record whose index is i, absent when there is none.
NameByIndex(recs, i, absent) ==
  IF HasIndex(recs, i)
  THEN recs[CHOOSE k \in 1..Len(recs) : recs[k].index = i].name
  ELSE absent

\* C4: the index of every sprite, object and background is the position of
\* its pointer in the pointer table, and every reference by index (the
\* sprite of an object, the background of a background slot and of a tile,
\* the object of an instance) resolves to the record with that index, or to
\* none.  Stated on the tree of a completed load, whose labels carry the
\* names of the resolved records.
C4_ResolvedByIndex ==
  LoadComplete =>
    /\ DictHas(chunks, SPRT) => IndexIsPosition(ext[1].sprites, SPRT, 64)
    /\ DictHas(chunks, OBJT) => IndexIsPosition(ext[1].objects, OBJT, 32)
    /\ DictHas(chunks, BGND) => IndexIsPosition(ext[1].backgrounds, BGND, 20)
    /\ \A k \in 1..Len(tree[1].objects) :
         LET o == ext[1].objects[k]
         IN  tree[1].objects[k].text.spr_name =
               IF o.sprite_index >= 0 /\ HasIndex(ext[1].sprites, o.sprite_index)
               THEN Some(NameByIndex(ext[1].sprites, o.sprite_index, << >>))
               ELSE None
    /\ \A r \in 1..Len(tree[1].rooms) :
         /\ \A k \in 1..Len(tree[1].rooms[r].bgs) :
              LET n == tree[1].rooms[r].bgs[k]
              IN  n.text.bg_name =
                    NameByIndex(ext[1].backgrounds, n.values[4],
                                Prefix("bg") \o str(n.values[4]))
         /\ \A k \in 1..Len(tree[1].rooms[r].tiles) :
              LET n == tree[1].rooms[r].tiles[k]
                  t == ext[1].rooms[r].tiles[n.values[3] + 1]
              IN  n.text.bg_name =
                    NameByIndex(ext[1].backgrounds, t.bg_index,
                                << 116, 105, 108, 101, 115, 101, 116, 95 >>
                                \o str(t.bg_index))
         /\ \A k \in 1..Len(tree[1].rooms[r].insts) :
              LET n == tree[1].rooms[r].insts[k]
                  i == ext[1].rooms[r].instances[n.values[3] + 1]
              IN  n.text.obj_name =
                    NameByIndex(ext[1].objects, i.obj_idx,
                                << 111, 98, 106, 95 >> \o str(i.obj_idx))

\* The chunk declares more bytes than the buffer holds behind its header.
Truncated(c) == c.data_start + c.size > Len(data)

\* What the step decodes from the archive on its own.
DecodedAlone(step) == run_step(step, data, chunks, GameExtractor).ext

\* The extractor holds all that the step decodes.
Delivered(step) ==
  \A f \in DOMAIN GameExtractor :
    DecodedAlone(step)[f] # GameExtractor[f] => ext[1][f] = DecodedAlone(step)[f]

\* C10: a chunk whose declared size runs past the end of the buffer is
\* indexed by the scan, and when the load of such an archive has ended the
\* records of every chunk that precedes the truncated one are delivered.
C10_EarlierChunksDelivered ==
  (parsePc = "done" /\ loadStep = 0 /\ loads > 0) =>
    \A k \in 1..Len(chunks.map) :
      Truncated(chunks.map[k]) =>
        \A j \in 1..Len(Steps) :
          (/\ DictHas(chunks, ChunkOf(Steps[j]))
           /\ DictGet(chunks, ChunkOf(Steps[j])).offset < chunks.map[k].offset)
          => Delivered(Steps[j])

\* The count that the pointer list at field offset f of the record at ptr
\* declares; 0 when the record names no list there.
DeclaredCount(ptr, f) ==
  IF has_list(data, ptr, f) THEN u32(data, list_at(data, ptr, f)) ELSE 0

\* C11: a record whose declared sub-list count exceeds the bound of the list
\* (8 background slots, 10,000 instances, 50,000 tiles of a room, the frame
\* bound of a sprite) is decoded with that sub-list empty: no prefix of the
\* oversized list is kept.
C11_OversizedListDiscarded ==
  LoadComplete =>
    /\ DictHas(chunks, ROOM) =>
         \A k \in 1..Len(ext[1].rooms) :
           LET r   == ext[1].rooms[k]
               ptr == TablePtr(ROOM, r.index)
           IN  /\ DeclaredCount(ptr, 40) > RoomMaxBgs => r.bg_defs = << >>
               /\ DeclaredCount(ptr, 48) > RoomMaxInstances => r.instances = << >>
               /\ DeclaredCount(ptr, 52) > RoomMaxTiles => r.tiles = << >>
    /\ DictHas(chunks, SPRT) =>
         \A k \in 1..Len(ext[1].sprites) :
           sprite_fc(data, TablePtr(SPRT, ext[1].sprites[k].index)) > SpriteMaxFrames
             => ext[1].sprites[k].frames = << >>

\* The end of the image file that starts at off: its signature, a header
\* sub-block of 13 bytes, a data sub-block and the end-marker sub-block.
PngEnd(off) == off + 57 + be32(data, off + 33)

\* A well-formed image file starts at off and lies inside the buffer.
WellFormedAt(off) ==
  /\ off + 37 <= Len(data)
  /\ PngEnd(off) <= Len(data)
  /\ Image_opens(Slice(data, off, PngEnd(off)))

\* C12: for every offset at which a well-formed image file starts and lies
\* inside the buffer, the raw texture extracted there is exactly the bytes
\* from that offset through the end of the first end-marker sub-block, also
\* when the image ends with the buffer, and never holds bytes of a following
\* image; when the signature at the offset does not match, it is empty.
C12_TextureBytesExact ==
  (LoadComplete /\ DictHas(chunks, TXTR)) =>
    \A k \in 1..Len(ext[1].textures) :
      LET entry == TablePtr(TXTR, k - 1)
          off   == u32(data, entry + 4)
      IN  (ok_ptr(data, entry, 8) /\ off # 0 /\ off < Len(data)) =>
            /\ WellFormedAt(off) => ext[1].textures[k] = Slice(data, off, PngEnd(off))
            /\ Slice(data, off, off + 8) # PngSignature => ext[1].textures[k] = << >>

(***************************************************************************)
(* Properties of the renderer, over SpecRender.                            *)
(***************************************************************************)
\* a is painted before b: the higher depth first, and at equal depth the
\* lower original index first.
PaintedBefore(a, b) ==
  a.depth > b.depth \/ (a.depth = b.depth /\ a.orig_idx < b.orig_idx)

\* The tiles and instances the last render pasted, in the order of the
\* paste calls.
Pasted == SelectSeq(lastRender[1].painted, LAMBDA m : m.kind \in {"tile", "inst"})

\* The rectangles of the last render that cover the pixel (x, y).
Covering(x, y) ==
  {i \in 1..Len(lastRender[1].tile_rects) :
     LET r == lastRender[1].tile_rects[i].rect
     IN  r[1] <= x /\ x < r[3] /\ r[2] <= y /\ y < r[4]}

\* C3: render paints the merged list of tiles and instances in order of
\* descending depth and, at equal depth, of ascending original index: of
\* two drawn tiles the one of higher depth is pasted first, of two tiles of
\* equal depth the one that is earlier in the tile list of the room; so in a
\* render of the tiles alone a pixel shows, of the tiles that cover it, the
\* one of the lowest depth and among those the last of the tile list (its
\* pixels mirrored where its scale is negative).
C3_PaintedByDepthThenIndex ==
  lastRender # None =>
    LET rects == lastRender[1].tile_rects
        asItem(i) == [depth |-> rects[i].tile.depth, orig_idx |-> rects[i].orig_idx]
    IN  /\ \A i, j \in 1..Len(Pasted) : i < j => PaintedBefore(Pasted[i], Pasted[j])
        /\ \A i, j \in 1..Len(rects) : i < j => PaintedBefore(asItem(i), asItem(j))
        /\ \A i \in 1..Len(rects) :
             lastRender[1].room.tiles[rects[i].orig_idx + 1] = rects[i].tile
        /\ (/\ lastRender[1].img # None
            /\ ~lastRender[1].opts.show_inst
            /\ lastRender[1].opts.highlight = None)
           => \A x \in 0..(lastRender[1].img[1].width - 1),
                 y \in 0..(lastRender[1].img[1].height - 1) :
                Covering(x, y) # {} =>
                  LET top == CHOOSE i \in Covering(x, y) :
                               \A j \in Covering(x, y) \ {i} :
                                  PaintedBefore(asItem(j), asItem(i))
                      tile == rects[top].tile
                  IN  Pixel(lastRender[1].img[1], x, y) =
                        Pixel(get_tile_image(renderer[1], textures, tile)[1],
                              IF f32_neg(tile.scale_x)
                              THEN rects[top].rect[3] - 1 - x ELSE x - rects[top].rect[1],
                              IF f32_neg(tile.scale_y)
                              THEN rects[top].rect[4] - 1 - y ELSE y - rects[top].rect[2])

\* A render pasted a tile of higher depth before a tile that precedes it in
\* the tile list, two tiles of equal depth, and an instance.
C3_Witness ==
  /\ lastRender # None
  /\ \E i, j \in 1..Len(Pasted) :
       /\ i < j /\ Pasted[i].kind = "tile" /\ Pasted[j].kind = "tile"
       /\ Pasted[i].depth > Pasted[j].depth /\ Pasted[i].orig_idx > Pasted[j].orig_idx
  /\ \E i, j \in 1..Len(Pasted) :
       /\ i < j /\ Pasted[i].kind = "tile" /\ Pasted[j].kind = "tile"
       /\ Pasted[i].depth = Pasted[j].depth
  /\ \E i \in 1..Len(Pasted) : Pasted[i].kind = "inst"

(***************************************************************************)
(* Properties of the tileset images and of the crops of the tiles, over    *)
(* SpecAtlas.                                                              *)
(***************************************************************************)
\* img is the w x h pixels of page from (x, y) on, all of them in the page.
ExactCrop(img, page, x, y, w, h) ==
  /\ x >= 0 /\ y >= 0 /\ x + w <= page.width /\ y + h <= page.height
  /\ img.width = w /\ img.height = h
  /\ \A i \in 0..(w - 1), j \in 0..(h - 1) : Pixel(img, i, j) = Pixel(page, x + i, y + j)

\* The region of the background lies inside its page, which was loaded.
RegionInPage(bg) ==
  /\ bg.tpage # None
  /\ bg.tpage[1].tex_id \in DOMAIN textures
  /\ bg.tpage[1].src_x + bg.tpage[1].src_w <= textures[bg.tpage[1].tex_id].width
  /\ bg.tpage[1].src_y + bg.tpage[1].src_h <= textures[bg.tpage[1].tex_id].height

\* C13: the tileset image of a background index is absent, or it is exactly
\* the pixels of the region of that background on its page; it is absent
\* when the background has no region, its page is missing, or the region
\* is not wholly inside the page.
C13_TilesetExactOrAbsent ==
  LoadComplete =>
    /\ \A k \in 1..Len(ext[1].backgrounds) :
         LET bg  == ext[1].backgrounds[k]
             got == get_tileset(renderer[1], bg.index)
         IN  /\ ~RegionInPage(bg) => got = None
             /\ got # None =>
                  ExactCrop(got[1], textures[bg.tpage[1].tex_id], bg.tpage[1].src_x,
                            bg.tpage[1].src_y, bg.tpage[1].src_w, bg.tpage[1].src_h)
    /\ \A i \in 0..MaxSlots :
         (\A k \in 1..Len(ext[1].backgrounds) : ext[1].backgrounds[k].index # i)
           => get_tileset(renderer[1], i) = None
    /\ (preview # None /\ preview[1].values[1] = "room_bg" /\ preview[1].img # None) =>
         \E k \in 1..Len(ext[1].backgrounds) :
           /\ ext[1].backgrounds[k].index = preview[1].values[4]
           /\ preview[1].img = get_tileset(renderer[1], preview[1].values[4])

\* The preview of a background slot shows a tileset image smaller than its page.
C13_Witness ==
  /\ LoadComplete /\ preview # None /\ preview[1].values[1] = "room_bg"
  /\ preview[1].img # None /\ preview[1].img[1].width = 2
  /\ Pixel(preview[1].img[1], 0, 0) = 6

\* A background whose region leaves its page has no tileset image.
C13_WitnessAbsent ==
  /\ LoadComplete
  /\ \E k \in 1..Len(ext[1].backgrounds) :
       /\ ext[1].backgrounds[k].tpage # None
       /\ ext[1].backgrounds[k].tpage[1].tex_id \in DOMAIN textures
       /\ ~RegionInPage(ext[1].backgrounds[k])

\* The background of index b of the archive loaded, None when there is none.
BackgroundOf(b) ==
  LET found == SelectSeq(ext[1].backgrounds, LAMBDA bg : bg.index = b)
  IN  IF found = << >> THEN None ELSE Some(found[1])

\* The rectangle of w x h at (x, y) lies inside img.
RectInside(img, x, y, w, h) ==
  x >= 0 /\ y >= 0 /\ x + w <= img.width /\ y + h <= img.height

\* What the two conventions give for a tile: its source is relative to the
\* tileset image or, failing that, to the region of the background on the
\* page.
TileCropExpected(t) ==
  LET ts == get_tileset(renderer[1], t.bg_index)
      bg == BackgroundOf(t.bg_index)
      on_page(tpe) ==
        IF tpe.tex_id \in DOMAIN textures
           /\ RectInside(textures[tpe.tex_id], tpe.src_x + t.src_x, tpe.src_y + t.src_y,
                         t.width, t.height)
        THEN Some(crop(textures[tpe.tex_id], tpe.src_x + t.src_x, tpe.src_y + t.src_y,
                       tpe.src_x + t.src_x + t.width, tpe.src_y + t.src_y + t.height))
        ELSE None
  IN  IF ts # None /\ RectInside(ts[1], t.src_x, t.src_y, t.width, t.height)
      THEN Some(crop(ts[1], t.src_x, t.src_y, t.src_x + t.width, t.src_y + t.height))
      ELSE IF bg # None /\ bg[1].tpage # None THEN on_page(bg[1].tpage[1])
      ELSE None

\* C14: the crop of a tile is the crop at its source in the tileset image
\* when the rectangle lies inside it; otherwise the crop at region source +
\* tile source on the page when that rectangle lies inside the page; it is
\* absent only when neither does.
C14_TileCropBothTried ==
  (LoadComplete /\ preview # None /\ preview[1].values[1] = "room_tile") =>
    LET room == room_of(ext[1], preview[1].values[2])[1]
        t    == room.tiles[preview[1].values[3] + 1]
    IN  preview[1].img = TileCropExpected(t)

\* A tile outside its tileset image is cropped from the page.
C14_WitnessPage ==
  /\ LoadComplete /\ preview # None /\ preview[1].values[1] = "room_tile"
  /\ preview[1].img # None
  /\ LET t == room_of(ext[1], preview[1].values[2])[1].tiles[preview[1].values[3] + 1]
     IN  t.src_x < 0 /\ preview[1].img = TileCropExpected(t)

\* The region of the frame lies inside its page, which was loaded.
FrameInPage(tpe) ==
  /\ tpe.tex_id \in DOMAIN textures
  /\ RectInside(textures[tpe.tex_id], tpe.src_x, tpe.src_y, tpe.src_w, tpe.src_h)

\* img is transparent but for the block of the region at its target.
Reconstructed(img, tpe, w, h) ==
  /\ img.width = w /\ img.height = h
  /\ \A x \in 0..(w - 1), y \in 0..(h - 1) :
       Pixel(img, x, y) =
         IF /\ tpe.tgt_x <= x /\ x < tpe.tgt_x + tpe.src_w
            /\ tpe.tgt_y <= y /\ y < tpe.tgt_y + tpe.src_h
         THEN Pixel(textures[tpe.tex_id], tpe.src_x + x - tpe.tgt_x, tpe.src_y + y - tpe.tgt_y)
         ELSE 0

C15_WitnessAbsent ==
  /\ LoadComplete /\ preview # None /\ preview[1].values[1] = "sprite"
  /\ LET spr == ext[1].sprite_map[preview[1].values[2]]
     IN  spr.width > 0 /\ spr.height > 0 /\ Len(spr.frames) = 2 /\ Len(preview[1].frames) = 1

(***************************************************************************)
(* Properties of renders of rooms with dangling references, over           *)
(* SpecRender.                                                             *)
(***************************************************************************)
\* No background of that index exists, or its region cannot be cropped
\* from its page.
NoBackgroundImage(b) ==
  BackgroundOf(b) = None \/ ~RegionInPage(BackgroundOf(b)[1])

\* The instance names an object that does not exist, or one whose sprite
\* does not exist or has no frames.
InstDangling(inst) ==
  \/ inst.obj_idx \notin DOMAIN ext[1].object_map
  \/ LET obj == ext[1].object_map[inst.obj_idx]
     IN  \/ obj.sprite_index \notin DOMAIN ext[1].sprite_map
         \/ ext[1].sprite_map[obj.sprite_index].frames = << >>

\* The room without its dangling elements.
Pruned(room) ==
  [room EXCEPT
     !.instances = SelectSeq(@, LAMBDA i : ~InstDangling(i)),
     !.tiles     = SelectSeq(@, LAMBDA t : ~NoBackgroundImage(t.bg_index)),
     !.bg_defs   = SelectSeq(@, LAMBDA d : ~NoBackgroundImage(d.bg_index))]

HasDangling(room) == Pruned(room) # room

\* The pixels of a room image, without the outlines drawn on it.
Pixels(img) == [width |-> img.width, height |-> img.height, px |-> img.px]

\* The rectangles and tiles of the hit list, without the positions in the room.
HitRects(tile_rects) ==
  [k \in 1..Len(tile_rects) |-> << tile_rects[k].rect, tile_rects[k].tile >>]

\* C16: the render of a room of positive size completes and returns an
\* image also when instances, tiles and background slots name objects,
\* sprites and backgrounds that do not exist, have no frames or cannot be
\* cropped; the image is the one of the room without those elements.
C16_DanglingOmitted ==
  (lastRender # None /\ lastRender[1].room.width > 0 /\ lastRender[1].room.height > 0) =>
    LET bare(res) ==
          /\ Pixels(lastRender[1].img[1]) = Pixels(res.img[1])
          /\ HitRects(lastRender[1].tile_rects) = HitRects(res.tile_rects)
    IN  /\ ~lastRender[1].raised
        /\ lastRender[1].img # None
        /\ bare(render_room([renderer[1] EXCEPT !.room_cache = << >>], textures,
                            Pruned(lastRender[1].room), lastRender[1].opts))

\* A room with a dangling instance, tile and background slot and with
\* elements that are drawn was rendered.
C16_Witness ==
  /\ lastRender # None /\ ~lastRender[1].raised /\ lastRender[1].img # None
  /\ lastRender[1].opts.show_inst /\ lastRender[1].opts.depth_min < 0
  /\ LET room == lastRender[1].room
     IN  /\ \E k \in 1..Len(room.instances) : InstDangling(room.instances[k])
         /\ \E k \in 1..Len(room.tiles) : NoBackgroundImage(room.tiles[k].bg_index)
         /\ \E k \in 1..Len(room.bg_defs) : NoBackgroundImage(room.bg_defs[k].bg_index)
         /\ Len(Pruned(room).instances) = 1
         /\ \E k \in 1..Len(lastRender[1].painted) : lastRender[1].painted[k].kind = "inst"
         /\ \E k \in 1..Len(lastRender[1].painted) : lastRender[1].painted[k].kind = "tile"

(***************************************************************************)
(* Properties of the room cache, over SpecRender.                          *)
(***************************************************************************)
\* What render_room computes for the room and the settings from an empty cache.
Recomputed(room, o) ==
  render_room([renderer[1] EXCEPT !.room_cache = << >>], textures, room, o)

\* C17: a render of a room under a filter returns the image and the hit
\* rectangles that a recompute from an empty cache returns, whatever was
\* rendered or cleared before it: two renders with the same filter and no
\* load in between return the same.
C17_RenderRepeatable ==
  (lastRender # None /\ ~lastRender[1].raised) =>
    LET same(res) ==
          /\ lastRender[1].img = res.img
          /\ lastRender[1].tile_rects = res.tile_rects
    IN  same(Recomputed(lastRender[1].room, lastRender[1].opts))

\* A render was answered from the cache, which holds renders under other
\* filters too.
C17_Witness ==
  /\ lastRender # None /\ lastRender[1].img # None
  /\ lastRender[1].painted = << >> /\ lastRender[1].tile_rects # << >>
  /\ cache_key(lastRender[1].room, lastRender[1].opts) \in DOMAIN renderer[1].room_cache
  /\ Cardinality(DOMAIN renderer[1].room_cache) >= 3

\* C18: no render with a highlighted tile is stored in the room cache, and
\* a render without highlight returns an image without outline.
C18_HighlightNeverCached ==
  /\ renderer # None =>
       \A k \in DOMAIN renderer[1].room_cache :
         k[8] = None /\ renderer[1].room_cache[k].img.outline = << >>
  /\ (lastRender # None /\ lastRender[1].img # None /\ lastRender[1].opts.highlight = None)
       => lastRender[1].img[1].outline = << >>

\* A highlighted render drew its outline while the cache holds the plain
\* render of the same room under the same toggles and depth range.
C18_Witness ==
  /\ lastRender # None /\ lastRender[1].img # None
  /\ lastRender[1].opts.highlight # None
  /\ lastRender[1].img[1].outline # << >>
  /\ cache_key(lastRender[1].room, [lastRender[1].opts EXCEPT !.highlight = None])
       \in DOMAIN renderer[1].room_cache

(***************************************************************************)
(* Properties of the caches across loads, over SpecReload.                 *)
(***************************************************************************)
\* The renderer built from the Catalog and the texture pages of the
\* archive loaded last.
FreshRenderer == RoomRenderer(ext[1], load_textures(ext[1]))

\* The settings a cache key stands for.
KeyOptions(key) ==
  [show_bg |-> key[2], show_tiles |-> key[3], show_inst |-> key[4], show_hidden |-> key[5],
   depth_min |-> key[6], depth_max |-> key[7], highlight |-> key[8]]

\* The entry is the render of the room of that index of the Catalog.
FromCatalog(key, entry) ==
  /\ room_of(ext[1], key[1]) # None
  /\ LET same(res) == res.img = Some(entry.img) /\ res.tile_rects = entry.tile_rects
     IN  same(render_room(FreshRenderer, load_textures(ext[1]),
                          room_of(ext[1], key[1])[1], KeyOptions(key)))

\* C19: once the Catalog was replaced by a load, the tileset cache and the
\* room cache hold only what derives from the new Catalog and its pages.
C19_CachesOfCurrentArchive ==
  (loads >= 2 /\ loadStep = 0 /\ parsePc = "done" /\ renderer # None) =>
    /\ renderer[1].tileset_cache = FreshRenderer.tileset_cache
    /\ \A key \in DOMAIN renderer[1].room_cache :
         FromCatalog(key, renderer[1].room_cache[key])

\* The second load went through and a room of the new archive was rendered.
C19_WitnessReloaded ==
  /\ loads = 2 /\ LoadComplete /\ lastRender # None /\ current_room # None
  /\ room_of(ext[1], current_room[1].index) = current_room
  /\ DOMAIN renderer[1].room_cache # {}
  /\ renderer[1].tileset_cache = FreshRenderer.tileset_cache
  /\ \A key \in DOMAIN renderer[1].room_cache :
       FromCatalog(key, renderer[1].room_cache[key])

(***************************************************************************)
(* Properties of overlapping renders, over SpecRace.                       *)
(***************************************************************************)
\* The caller is past the cache check of a call and has not returned.
InProgress(c) == rendering[c].pc \in {"compositing", "insert"}

C20_WitnessOverlap ==
  \E c, d \in Callers :
    /\ c # d /\ InProgress(c) /\ InProgress(d)
    /\ cache_key(rendering[c].room, rendering[c].opts)
         # cache_key(rendering[d].room, rendering[d].opts)

(***************************************************************************)
(* Properties of the handlers during a load, over SpecReload.              *)
(***************************************************************************)
\* Every step of extract_all has run on the extractor the App holds.
FullyDecoded == loadStep = 0 /\ lastError # "struct_error"

\* C21: a selection handler or a render runs only against an extractor on
\* which every decode step has run, also when the event loop dispatches it
\* from the progress callback of a load.
C21_HandlersSeeWholeCatalog ==
  [][(preview' # preview \/ lastRender' # lastRender) => FullyDecoded]_vars

\* A room was shown from the tree of the first archive while the second
\* archive was being decoded.
C21_WitnessMidLoad ==
  /\ loads = 2 /\ loadStep > 1 /\ preview # None /\ preview[1].values[1] = "room"
  /\ lastRender # None /\ lastRender[1].room \notin {ext[1].rooms[k] : k \in 1..Len(ext[1].rooms)}

(***************************************************************************)
(* Properties of the skip test of the decoders, over SpecDecode.           *)
(***************************************************************************)
\* The record of fixed size n at the pointer of slot i of the table of the
\* chunk lies inside the buffer.
RecordFits(tag, i, n) == TablePtr(tag, i) # 0 /\ TablePtr(tag, i) + n <= Len(data)

\* C22: a top-level record is decoded if and only if its pointer is not
\* zero and its fixed part (32 bytes of an object, 60 bytes of a sprite up
\* to its frame pointers) ends at or before the end of the buffer.
C22_DecodedIffRecordFits ==
  LoadComplete =>
    /\ DictHas(chunks, OBJT) =>
         \A i \in 0..(TableCount(OBJT) - 1) :
           (i \in DOMAIN ext[1].object_map) <=> RecordFits(OBJT, i, 32)
    /\ DictHas(chunks, SPRT) =>
         \A i \in 0..(TableCount(SPRT) - 1) :
           (i \in DOMAIN ext[1].sprite_map) <=> RecordFits(SPRT, i, 60)

(***************************************************************************)
(* Properties of the order of tiles, instances and backgrounds in a        *)
(* render, over SpecRender.                                                *)
(***************************************************************************)
\* C23: of the tiles and instances a render pastes, a tile is pasted before
\* every instance of the same depth: every index of a tile of a decoded
\* room (at most RoomMaxTiles of them) is below the index InstBase + i of
\* every instance.
C23_TilesBeforeInstances ==
  /\ RoomMaxTiles <= InstBase
  /\ lastRender # None =>
       /\ Len(lastRender[1].room.tiles) <= RoomMaxTiles
       /\ \A i, j \in 1..Len(Pasted) :
            (/\ Pasted[i].kind = "tile" /\ Pasted[j].kind = "inst"
             /\ Pasted[i].depth = Pasted[j].depth)
            => /\ i < j
               /\ Pasted[i].orig_idx < Pasted[j].orig_idx

\* A render pasted the second tile of the room and then the first instance
\* of the room, both of one depth.
C23_Witness ==
  /\ lastRender # None
  /\ \E i, j \in 1..Len(Pasted) :
       /\ i < j /\ Pasted[i].kind = "tile" /\ Pasted[j].kind = "inst"
       /\ Pasted[i].depth = Pasted[j].depth
       /\ Pasted[i].orig_idx > 0 /\ Pasted[j].orig_idx = InstBase

\* The positions of the background slots in what the last render painted.
BgMarks == {p \in 1..Len(lastRender[1].painted) : lastRender[1].painted[p].kind = "bg"}

\* The positions of its tiles and instances.
ElementMarks ==
  {p \in 1..Len(lastRender[1].painted) : lastRender[1].painted[p].kind \in {"tile", "inst"}}

\* The slot of the room that was painted at position p.
SlotAt(p) == lastRender[1].room.bg_defs[lastRender[1].painted[p].slot + 1]

\* The slot has an image to paint.
HasImage(bg_def) == bg_def.bg_index \in DOMAIN renderer[1].tileset_cache

\* The last render composited the room anew and completed.
Composited ==
  /\ lastRender # None /\ ~lastRender[1].raised /\ lastRender[1].img # None
  /\ Recomputed(lastRender[1].room, lastRender[1].opts).painted = lastRender[1].painted

\* C24: with backgrounds enabled, a slot that is visible, not foreground
\* and has an image is painted before every tile and instance, one that is
\* visible and foreground after all of them, the slots of a group in the
\* order of the slots, each once; a slot that is not visible or whose
\* background index is negative is never painted.  The pixels a foreground
\* slot covers show the background and not what was painted before it.
C24_BackgroundsAroundElements ==
  (lastRender # None /\ lastRender[1].opts.show_bg) =>
    LET room == lastRender[1].room
        mark(p) == lastRender[1].painted[p]
    IN  /\ \A p \in BgMarks :
             /\ SlotAt(p).visible /\ SlotAt(p).bg_index >= 0
             /\ SlotAt(p).foreground = mark(p).foreground
             /\ \A q \in ElementMarks : IF SlotAt(p).foreground THEN q < p ELSE p < q
             /\ \A q \in BgMarks :
                  /\ (SlotAt(p).foreground /\ ~SlotAt(q).foreground) => q < p
                  /\ (SlotAt(p).foreground = SlotAt(q).foreground /\ p < q)
                     => mark(p).slot < mark(q).slot
        /\ Composited =>
             /\ \A k \in 1..Len(room.bg_defs) :
                  (room.bg_defs[k].visible /\ room.bg_defs[k].bg_index >= 0
                   /\ HasImage(room.bg_defs[k]))
                  => \E p \in BgMarks : mark(p).slot = k - 1
             /\ \A p \in BgMarks :
                  (/\ SlotAt(p).foreground
                   /\ ~SlotAt(p).stretch /\ ~SlotAt(p).tile_h /\ ~SlotAt(p).tile_v
                   /\ \A q \in BgMarks : q <= p)
                  => LET src == renderer[1].tileset_cache[SlotAt(p).bg_index]
                     IN  \A x \in 0..(src.width - 1), y \in 0..(src.height - 1) :
                           (/\ SlotAt(p).x + x < room.width /\ SlotAt(p).y + y < room.height
                            /\ Pixel(src, x, y) # 0)
                           => Pixel(lastRender[1].img[1], SlotAt(p).x + x, SlotAt(p).y + y)
                                = Pixel(src, x, y)

\* A render painted two slots behind a tile and an instance and two slots
\* in front of them, of a room that also has a slot that is not visible
\* and one of a negative background index.
C24_Witness ==
  /\ Composited /\ lastRender[1].opts.show_bg
  /\ \E p1, p2, p3, p4 \in BgMarks, t, i \in ElementMarks :
       /\ p1 < p2 /\ p2 < t /\ t < i /\ i < p3 /\ p3 < p4
       /\ lastRender[1].painted[t].kind = "tile" /\ lastRender[1].painted[i].kind = "inst"
  /\ \E k \in 1..Len(lastRender[1].room.bg_defs) : ~lastRender[1].room.bg_defs[k].visible
  /\ \E k \in 1..Len(lastRender[1].room.bg_defs) : lastRender[1].room.bg_defs[k].bg_index < 0

(***************************************************************************)
(* Properties of the hit rectangles of a render, over SpecRender.          *)
(***************************************************************************)
\* App._on_room_click from the image coordinates of the click on: the entry
\* of the hit list it selects, scanning the list from its end.
on_room_click(tile_rects, img_x, img_y) ==
  LET hit(k) == /\ tile_rects[k].rect[1] <= img_x /\ img_x <= tile_rects[k].rect[3]
                /\ tile_rects[k].rect[2] <= img_y /\ img_y <= tile_rects[k].rect[4]
      hits   == {k \in 1..Len(tile_rects) : hit(k)}
  IN  IF hits = {} THEN None
      ELSE Some(tile_rects[CHOOSE k \in hits : \A j \in hits : j <= k])

\* The tile of the room is one render_room pastes under the settings.
TilePasted(tile, o) ==
  /\ o.show_tiles /\ o.depth_min <= tile.depth /\ tile.depth <= o.depth_max
  /\ get_tile_image(renderer[1], textures, tile) # None
  /\ abs_mul_floor(tile.scale_x, tile.width) > 0
  /\ abs_mul_floor(tile.scale_y, tile.height) > 0

\* The hit list holds one rectangle for each tile pasted and no other, in
\* the order of the pastes, each of the scaled size of its tile.
RectPerPastedTile ==
  Composited =>
    LET rects == lastRender[1].tile_rects
        room  == lastRender[1].room
        tiles == SelectSeq(lastRender[1].painted, LAMBDA m : m.kind = "tile")
    IN  /\ Len(rects) = Len(tiles)
        /\ \A k \in 1..Len(rects) :
             /\ rects[k].orig_idx = tiles[k].orig_idx
             /\ rects[k].tile = room.tiles[rects[k].orig_idx + 1]
             /\ TilePasted(rects[k].tile, lastRender[1].opts)
             /\ rects[k].rect[3] - rects[k].rect[1]
                  = abs_mul_floor(rects[k].tile.scale_x, rects[k].tile.width)
             /\ rects[k].rect[4] - rects[k].rect[2]
                  = abs_mul_floor(rects[k].tile.scale_y, rects[k].tile.height)
        /\ \A i \in 1..Len(room.tiles) :
             TilePasted(room.tiles[i], lastRender[1].opts)
             => Cardinality({k \in 1..Len(rects) : rects[k].orig_idx = i - 1}) = 1

\* C25: the hit list of a render holds one rectangle for each tile pasted
\* and none else, in paste order; and the click handler, scanning it from
\* its end, selects for a pixel of the image the tile pasted last of those
\* that cover the pixel, and none where no tile covers it.
C25_ClickFindsTopmostTile ==
  /\ RectPerPastedTile
  /\ Composited =>
       LET rects == lastRender[1].tile_rects
       IN  \A x \in 0..(lastRender[1].room.width - 1),
              y \in 0..(lastRender[1].room.height - 1) :
             on_room_click(rects, x, y) =
               IF Covering(x, y) = {} THEN None
               ELSE Some(rects[CHOOSE k \in Covering(x, y) :
                                  \A j \in Covering(x, y) : j <= k])

\* A render pasted a tile over the pixel to the left of a tile pasted
\* before it, and had an instance and a tile outside the depth range to
\* leave out.
C25_Witness ==
  /\ Composited
  /\ \E i, j \in 1..Len(lastRender[1].tile_rects) :
       /\ i < j
       /\ lastRender[1].tile_rects[j].rect[3] = lastRender[1].tile_rects[i].rect[1]
       /\ lastRender[1].tile_rects[j].rect[2] = lastRender[1].tile_rects[i].rect[2]

\* The tile with the positive scale of equal magnitude.
Unflipped(tile) ==
  [tile EXCEPT !.scale_x = [@ EXCEPT !.neg = FALSE], !.scale_y = [@ EXCEPT !.neg = FALSE]]

\* The rectangles of a render of the room of the last render with every
\* tile unflipped.
UnflippedRects ==
  Recomputed([lastRender[1].room EXCEPT
                !.tiles = [k \in 1..Len(@) |-> Unflipped(@[k])]],
             lastRender[1].opts).tile_rects

Flipped(tile) == f32_neg(tile.scale_x) \/ f32_neg(tile.scale_y)

\* C26 as stated: a tile with a negative scale is pasted to the rectangle
\* of the same tile with the positive scale of equal magnitude, which
\* starts at the position of the tile and so inside the canvas when the
\* position is.
C26_FlipKeepsFootprint ==
  Composited =>
    \A k \in 1..Len(lastRender[1].tile_rects) :
      LET e == lastRender[1].tile_rects[k]
      IN  Flipped(e.tile) =>
            /\ e.rect = UnflippedRects[k].rect
            /\ (e.tile.x >= 0 /\ e.tile.y >= 0) => (e.rect[1] >= 0 /\ e.rect[2] >= 0)

\* C26 amended: a tile with a negative scale is pasted mirrored to a
\* rectangle of the size of the one of the same tile with the positive
\* scale, moved left by its width where scale_x is negative and up by its
\* height where scale_y is negative (for a scaled size that is a whole
\* number): the rectangle ends at the position of the tile where the other
\* starts there.
C26_FlipMovesByExtent ==
  Composited =>
    \A k \in 1..Len(lastRender[1].tile_rects) :
      LET e    == lastRender[1].tile_rects[k]
          u    == UnflippedRects[k].rect
          w    == u[3] - u[1]
          h    == u[4] - u[2]
          left == IF f32_neg(e.tile.scale_x) THEN w ELSE 0
          up   == IF f32_neg(e.tile.scale_y) THEN h ELSE 0
          src  == get_tile_image(renderer[1], textures, e.tile)[1]
      IN  (/\ Flipped(e.tile)
           /\ abs_mul_whole(e.tile.scale_x, e.tile.width)
           /\ abs_mul_whole(e.tile.scale_y, e.tile.height))
          => /\ e.rect = << u[1] - left, u[2] - up, u[3] - left, u[4] - up >>
             /\ f32_neg(e.tile.scale_x) => e.rect[3] = e.tile.x
             /\ f32_neg(e.tile.scale_y) => e.rect[4] = e.tile.y
             /\ (Len(lastRender[1].tile_rects) = 1 /\ ~lastRender[1].opts.show_inst
                 /\ w = src.width /\ h = src.height)
                => \A x \in 0..(lastRender[1].room.width - 1),
                      y \in 0..(lastRender[1].room.height - 1) :
                     (/\ e.rect[1] <= x /\ x < e.rect[3]
                      /\ e.rect[2] <= y /\ y < e.rect[4])
                     => Pixel(lastRender[1].img[1], x, y) =
                          Pixel(src,
                                IF f32_neg(e.tile.scale_x)
                                THEN e.rect[3] - 1 - x ELSE x - e.rect[1],
                                IF f32_neg(e.tile.scale_y)
                                THEN e.rect[4] - 1 - y ELSE y - e.rect[2])

\* A tile of two pixels at (2, 1) with the scale -1.0 in x was pasted to
\* the columns 0 and 1, its pixels in reverse order; and a tile at (0, 1)
\* with the scale -1.0 in x was pasted left of the canvas.
C26_Witness ==
  /\ Composited /\ Len(lastRender[1].tile_rects) = 1
  /\ LET e == lastRender[1].tile_rects[1]
     IN  /\ f32_neg(e.tile.scale_x) /\ ~f32_neg(e.tile.scale_y)
         /\ e.tile.x = 2 /\ e.rect = << 0, 1, 2, 2 >>
         /\ Pixel(lastRender[1].img[1], 0, 1) = 2 /\ Pixel(lastRender[1].img[1], 1, 1) = 1

(***************************************************************************)
(* Properties of the list of the texture files, over SpecDecode.           *)
(***************************************************************************)
\* The pointer of the image file of slot i of the texture table, where the
\* entry of the slot can be read.
FilePtr(i) == u32(data, TablePtr(TXTR, i) + 4)

\* Slot i of the texture table points at an entry that points at the
\* signature of an image file.
SlotHasFile(i) ==
  /\ TablePtr(TXTR, i) # 0 /\ TablePtr(TXTR, i) + 8 < Len(data)
  /\ FilePtr(i) # 0 /\ FilePtr(i) + 8 <= Len(data)
  /\ Slice(data, FilePtr(i), FilePtr(i) + 8) = PngSignature

\* C27: the list of the texture files has one entry for each slot of the
\* pointer table of the texture chunk, in the order of the slots: the
\* bytes of the file the slot points at, or the empty entry where the
\* pointer is bad or no signature is found; so the page p of the viewer is
\* the image of the file of slot p or is absent.
C27_TextureListBySlot ==
  (LoadComplete /\ DictHas(chunks, TXTR)) =>
    /\ Len(ext[1].textures) = TableCount(TXTR)
    /\ \A i \in 0..(TableCount(TXTR) - 1) :
         LET png == ext[1].textures[i + 1]
         IN  /\ ~SlotHasFile(i) => png = << >>
             /\ png # << >> => png = Slice(data, FilePtr(i), FilePtr(i) + Len(png))
    /\ \A p \in DOMAIN textures :
         /\ p \in 0..(TableCount(TXTR) - 1)
         /\ SlotHasFile(p)
         /\ textures[p] = Image_open(Slice(data, FilePtr(p), Len(data)))

\* An archive of three texture slots was loaded whose second slot has a
\* bad pointer: the list has three entries, the second one empty, and the
\* page 2 of the viewer is the image of the third file.
C27_Witness ==
  /\ LoadComplete /\ DictHas(chunks, TXTR) /\ TableCount(TXTR) = 3
  /\ Len(ext[1].textures) = 3 /\ ext[1].textures[2] = << >>
  /\ DOMAIN textures = {0, 2}
  /\ textures[0].px = << 1, 2 >> /\ textures[2].px = << 3, 4 >>

(***************************************************************************)
(* Properties of a load that fails after the scan, over SpecApp.           *)
(***************************************************************************)
\* The data file, the extractor, the textures, the renderer and the tree
\* are all unset, or are those of one archive: the renderer holds the
\* extractor of the viewer, the textures are the pages of that extractor,
\* and the tree is the one of the data file and the extractor.
OneArchive ==
  \/ dw = None /\ ext = None /\ renderer = None /\ tree = None /\ DOMAIN textures = {}
  \/ /\ dw # None /\ ext # None /\ renderer # None /\ tree # None
     /\ renderer[1].ext = ext[1]
     /\ textures = load_textures(ext[1])
     /\ tree[1] = populate_tree(dw[1], ext[1], textures)

\* C28: after a load that failed in a decode step, after the scan, the
\* data file, the extractor, the texture pages and the renderer are those
\* of the archive loaded before, or are all unset.
C28_FailedLoadChangesNothing ==
  LoadAborted => OneArchive

\* A load failed in a decode step after an archive had been loaded whole.
C28_Witness ==
  /\ LoadAborted /\ loads = 2
  /\ renderer # None /\ tree # None /\ DOMAIN textures # {}
  /\ renderer[1].ext # ext[1]

(***************************************************************************)
(* Properties of the current room across loads, over SpecReload.           *)
(***************************************************************************)
\* The rooms of a Catalog.
RoomsOf(e) == {e.rooms[k] : k \in 1..Len(e.rooms)}

\* C29: whenever no load is under way, the current room of the viewer is a
\* room of the Catalog of the current renderer, so that a refresh renders
\* and caches a room of the archive loaded last.
C29_CurrentRoomOfRenderer ==
  (loadStep = 0 /\ current_room # None /\ renderer # None) =>
    current_room[1] \in RoomsOf(renderer[1].ext)

\* After the second archive was loaded whole, a refresh rendered the room
\* shown before the load, which is no room of the new Catalog, and stored
\* the result in the cache of the new renderer.
C29_WitnessStaleRoom ==
  /\ loads = 2 /\ LoadComplete /\ current_room # None
  /\ current_room[1] \notin RoomsOf(renderer[1].ext)
  /\ renderer[1].ext = ext[1]
  /\ lastRender # None /\ lastRender[1].room = current_room[1]
  /\ cache_key(current_room[1], lastRender[1].opts) \in DOMAIN renderer[1].room_cache

(***************************************************************************)
(* The converter to MaxScript: LayerMapper maps the depth of an element to *)
(* one of five layers and the layer to a Z position.  The converter        *)
(* records the depth of every tile and instance of a room, then places     *)
(* each element and each background slot.                                  *)
(***************************************************************************)
\* The depths at and next to the ends of the ranges.
LayerDepths ==
  {0 - 100000, 0 - 2001, 0 - 2000, 0 - 501, 0 - 500, 999, 1000, 4999, 5000}

MaxRecorded == 3

\* The number of depths recorded.
Recorded(m) ==
  LET RECURSIVE total(_)
      total(S) == IF S = {} THEN 0
                  ELSE LET b == CHOOSE x \in S : TRUE
                       IN  m.depth_histogram[b] + total(S \ {b})
  IN  total(DOMAIN m.depth_histogram)

\* LayerMapper.record_depth
record_depth(m, depth) ==
  LET bucket == (depth \div 100) * 100
  IN  [m EXCEPT
         !.min_depth = IF @ = None THEN Some(depth) ELSE Some(Min(@[1], depth)),
         !.max_depth = IF @ = None THEN Some(depth) ELSE Some(Max(@[1], depth)),
         !.depth_histogram =
            [b \in DOMAIN @ \cup {bucket} |->
               IF b = bucket
               THEN (IF bucket \in DOMAIN @ THEN @[bucket] ELSE 0) + 1
               ELSE @[b]]]

\* LayerMapper.depth_to_layer
depth_to_layer(m, depth) ==
  IF depth >= m.depth_ranges.layer_2 THEN 0 - 2
  ELSE IF depth >= m.depth_ranges.layer_1 THEN 0 - 1
  ELSE IF depth >= m.depth_ranges.layer_0 THEN 0
  ELSE IF depth >= m.depth_ranges.layer_m1 THEN 1
  ELSE 2

\* LayerMapper.layer_to_z: layer * -10.0, a float with a whole value
layer_to_z(layer) == layer * (0 - 10)

\* self.layer_mapper.record_depth(tile.depth), and the same for an object
RecordDepth ==
  /\ Recorded(layer_mapper) < MaxRecorded
  /\ \E depth \in LayerDepths : layer_mapper' = record_depth(layer_mapper, depth)
  /\ UNCHANGED << scanVars, nameVars, appVars, placed >>

\* The loop body of the elements of a room, whose depths were recorded:
\* the layer of the depth and its Z.
PlaceElement ==
  /\ \E depth \in LayerDepths :
       /\ (depth \div 100) * 100 \in DOMAIN layer_mapper.depth_histogram
       /\ placed' = Some([layer |-> depth_to_layer(layer_mapper, depth),
                          z_pos |-> layer_to_z(depth_to_layer(layer_mapper, depth))])
  /\ UNCHANGED << scanVars, nameVars, appVars, layer_mapper >>

\* _generate_background: a foreground slot in layer 2, another in layer -2.
PlaceBackground ==
  /\ \E foreground \in BOOLEAN :
       LET layer == IF foreground THEN 2 ELSE 0 - 2
       IN  placed' = Some([layer |-> layer, z_pos |-> layer_to_z(layer)])
  /\ UNCHANGED << scanVars, nameVars, appVars, layer_mapper >>

NextLayer == RecordDepth \/ PlaceElement \/ PlaceBackground

SpecLayer == InitDecode /\ [][NextLayer]_vars

(***************************************************************************)
(* Properties of the layers, over SpecLayer.                               *)
(***************************************************************************)
\* The Z positions the documentation of LayerMapper gives for the layers
\* -2, -1, 0, +1, +2.
DocumentedZ(layer) == << 0 - 20, 0 - 10, 0, 10, 20 >>[layer + 3]

\* C30: an element placed in a layer gets the Z position the documentation
\* gives for the layer: -20 for layer -2, -10 for -1, 0 for 0, 10 for +1
\* and 20 for +2.
C30_LayerAtDocumentedZ ==
  placed # None => placed[1].z_pos = DocumentedZ(placed[1].layer)

\* An element of the depth 5000, recorded before, was placed in layer -2.
C30_Witness ==
  /\ placed # None /\ placed[1].layer = 0 - 2
  /\ layer_mapper.max_depth = Some(5000)

====
